---- MODULE Spec2Model ----
(***************************************************************************)
(* A model of the cooperative task runtime of                              *)
(* "Asynchronous Programming in Rust":                                     *)
(*   - ch08/b-reactor-executor: the executor (spawn, block_on, Waker),     *)
(*     the reactor (waker table, event loop) and the leaf HttpGetFuture;   *)
(*   - ch07/c-async-await: JoinAll;                                        *)
(*   - ch07/a-coroutine and ch08/a-runtime: the sequential coroutine.      *)
(* Each part is one state machine over its own variables; the variables of *)
(* the other parts stay at their initial values.                           *)
(***************************************************************************)
EXTENDS Integers, Sequences, FiniteSets, TLC

\* ------------------------------------------------------------------ bounds
\* Leaf futures created in one run (caps Reactor::next_id and spawn).
MaxTasks == 2
\* Data chunks the peers send in one run, over all sockets.
MaxChunks == 1

\* Sub-tasks handed to join_all.
MaxSlots == 3
\* JoinAll::poll calls the polling loop makes before the model stops it.
MaxJoinPolls == 3

\* Data chunks the server of one coroutine stage sends before it closes.
CoMaxChunks == 2

\* Data chunks the servers of the epoll example send in one run.
EpMaxChunks == 1

\* ch04/a-epoll main: `let n_events = 5`, the number of streams.
n_events == 5

\* spawn calls main makes before run (one more than the free slots).
MaxSpawns == 4
\* yield_thread calls one fiber's function makes before it returns.
MaxYields == 2

\* ch05/c-fibers: `const MAX_THREADS: usize = 4`.
MAX_THREADS == 4
\* Indices of Runtime.threads: the base thread and MAX_THREADS - 1 others.
Slots == 0..(MAX_THREADS - 1)

\* Executor threads (each owns one thread_local CURRENT_EXEC).
Execs == {"A", "B"}
\* The executor thread that runs in specification Spec.
Main == {"A"}
\* Interest ids handed out by Reactor::next_id (it starts at 1).
Iids == 1..MaxTasks
\* Task ids handed out by spawn (ExecutorCore::next_id starts at 0).
TaskIds == 0..(MaxTasks - 1)

\* ------------------------------------------------------------- state
VARIABLES
    pc,           \* [Execs -> position of the executor thread]
    cur,          \* [Execs -> the task block_on took off the table and polls]
    tasks,        \* [Execs -> ExecutorCore.tasks: task id -> future]
    ready_queue,  \* [Execs -> ExecutorCore.ready_queue: Vec<usize>]
    next_id,      \* [Execs -> ExecutorCore.next_id]
    token,        \* [Execs -> the thread's park token (set by unpark)]
    wakers,       \* Reactor.wakers: interest id -> Waker
    rnext_id,     \* Reactor.next_id
    rpc,          \* position of the event-loop thread
    revents,      \* tokens in `events` not yet handled by the for loop
    rwaker,       \* the Waker event_loop found and is invoking
    rtoken,       \* the token of the event whose Waker is being invoked (0: none)
    sock,         \* per interest id: the socket as the peer and kernel see it
    registered,   \* interest ids registered with the mio Registry
    edge,         \* registered ids with an undelivered readiness edge
    rlog,         \* history: per leaf, its Reactor::register/deregister calls
    readyCnt,     \* history: per leaf, how often its poll returned Ready
    pollsAfter,   \* history: per leaf, polls started after it returned Ready
    owner,        \* history: [Execs -> task id -> leaves ever stored under it]
    wlock,        \* holder of the Mutex around Reactor.wakers ("free" if none)
    qlock,        \* [Execs -> holder of the Mutex around that ready_queue]
    \* --- ch08/b: reactor::start and the threads that call the Reactor's API
    REACTOR,      \* the OnceLock: "unset", or the thread whose start filled it
    loop_threads, \* threads whose start call spawned an event-loop thread
    start_pc,     \* [Execs -> position of that thread in reactor::start]
    call,         \* history: the last set_waker/deregister call made directly
    \* --- ch04/a-epoll: main's loop and handle_events
    ep_pc,        \* main: "loop" (at the while test), "finished" or "error"
    ep_sock,      \* per stream index: unread chunks, closed by the server
    ep_edge,      \* stream indices epoll_wait will report
    ep_sent,      \* history: chunks sent so far
    handled_ids,  \* main's HashSet of stream indices seen at end-of-stream
    handled_events, \* main's counter
    ep_eof,       \* history: streams on which a read has returned Ok(0)
    ep_dups,      \* history: streams with a second zero-byte read
    \* --- ch07/c-async-await: JoinAll and the loop that polls it
    jfutures,     \* JoinAll.futures: Vec<(bool, F)>
    jfinished_count, \* JoinAll.finished_count
    jresult,      \* what the last JoinAll::poll returned ("none" before it)
    jpolls,       \* history: JoinAll::poll calls made
    jsubPolls,    \* history: per slot, polls of its sub-task
    jsubReady,    \* history: per slot, Ready results of its sub-task
    jlast,        \* history: the slots the last JoinAll::poll polled, in order
    \* --- ch07/a-coroutine: Coroutine, its leaf futures and the main loop
    co_state,     \* Coroutine.state: the tag
    co_fut,       \* the HttpGetFuture the tag holds
    co_sock,      \* per stage (1, 2): the socket of that stage's Http::get
    co_result,    \* what the last Coroutine::poll returned ("none" before it)
    co_log,       \* history: what the last Coroutine::poll did, in order
    co_made,      \* history: stages whose sub-task has been constructed
    \* --- ch05/c-fibers: Runtime and the fibers main spawns
    f_pc,         \* main: "off", "main" (before run), "run", "exited",
                  \* "panicked" (spawn's expect) or "stray" (guard returned)
    threads,      \* Runtime.threads: per slot, Thread.state
    current,      \* Runtime.current
    f_left,       \* per slot: yield_thread calls its function still makes
    f_spawned,    \* history: spawn calls that returned
    f_done        \* history: fibers whose function has returned

runtimeVars == <<pc, cur, tasks, ready_queue, next_id, token, wakers, rnext_id,
                 rpc, revents, rwaker, rtoken, sock, registered, edge, rlog, readyCnt,
                 pollsAfter, owner, wlock, qlock>>
joinVars == <<jfutures, jfinished_count, jresult, jpolls, jsubPolls, jsubReady,
              jlast>>
coVars == <<co_state, co_fut, co_sock, co_result, co_log, co_made>>
startVars == <<REACTOR, loop_threads, start_pc, call>>
epVars == <<ep_pc, ep_sock, ep_edge, ep_sent, handled_ids, handled_events,
            ep_eof, ep_dups>>

fiberVars == <<f_pc, threads, current, f_left, f_spawned, f_done>>

vars == <<runtimeVars, joinVars, coVars, startVars, epVars, fiberVars>>

\* What a step of one machine leaves alone: the other machines.
notRuntime == <<joinVars, coVars, startVars, epVars, fiberVars>>
notJoin == <<runtimeVars, coVars, startVars, epVars, fiberVars>>
notCo == <<runtimeVars, joinVars, startVars, epVars, fiberVars>>
notStart == <<joinVars, coVars, epVars, fiberVars>>
notEp == <<runtimeVars, joinVars, coVars, startVars, fiberVars>>
notFiber == <<runtimeVars, joinVars, coVars, startVars, epVars>>

execVars == <<pc, cur, tasks, ready_queue, next_id, token>>
reactorVars == <<rpc, revents, rwaker, rtoken>>
histVars == <<rlog, readyCnt, pollsAfter, owner>>
lockVars == <<wlock, qlock>>

\* ------------------------------------------------------------- values
\* HttpGetFuture { stream, buffer, path, id }: stream is None until the first
\* poll; buffer counts the chunks appended so far.
NoFut == [iid |-> 0, stream |-> FALSE, buffer |-> 0]
\* HttpGetFuture::new: id from Reactor::next_id, stream None, empty buffer.
NewFuture(iid) == [iid |-> iid, stream |-> FALSE, buffer |-> 0]

\* The task block_on holds while it polls it; `first` tells whether this
\* poll found the stream unopened and took the first-poll branch, `direct`
\* whether it is the poll that ch09/c's block_on makes before its loop.
NoCur == [id |-> -1, fut |-> NoFut, first |-> FALSE, direct |-> FALSE]
NoWaker == [id |-> -1, thread |-> "none"]
\* Mutant: every Waker carries the handle and queue of the first thread.
get_waker_FirstThread(e, id) == [id |-> id, thread |-> "A"]

\* Executor::get_waker: the id, thread::current(), and that thread's queue
\* (the queue is CURRENT_EXEC's, so the thread names it).
get_waker(e, id) == [id |-> id, thread |-> e]

NewSock == [conn |-> FALSE, avail |-> 0, sent |-> 0, closed |-> FALSE]

EmptyTable == [i \in TaskIds |-> NoFut]
InTable(e, id) == id \in TaskIds /\ tasks[e][id] # NoFut
\* Executor::task_count
task_count(e) == Cardinality({i \in TaskIds : tasks[e][i] # NoFut})

Range(s) == {s[i] : i \in 1..Len(s)}

\* Positions of an executor thread inside HttpGetFuture::poll.
PollPcs == {"connect", "register", "set_waker1", "read", "set_waker2",
            "dereg_wakers", "dereg_registry"}

\* Mutant: event_loop's guard is a temporary too: the lock is dropped after
\* the lookup, before the Waker it found is invoked.
GuardAfter_LookupOnly(site, th) == "free"

\* Mutant: the executor's ready-queue guards (spawn, pop_ready) are bound to
\* locals that outlive the statement, like event_loop's.
GuardAfter_QueueHeld(site, th) ==
    IF site \in {"event_loop", "pop_ready", "spawn"} THEN th ELSE "free"

\* Mutant: pop_ready keeps its guard, as if it were bound to a local of
\* block_on's loop body.
GuardAfter_PopHeld(site, th) ==
    IF site \in {"event_loop", "pop_ready"} THEN th ELSE "free"

\* Who holds a mutex once the statement that locked it has ended. A guard
\* that is a temporary of `.lock().map(|mut g| ...)` is dropped with the
\* statement (spawn, pop_ready, Waker::wake, set_waker, deregister);
\* event_loop binds its guard to a local (`let wakers = wakers.lock()...`),
\* which lives to the end of the loop body.
GuardAfter(site, th) == IF site = "event_loop" THEN th ELSE "free"

\* The waker-table lock is taken: a thread that wants it blocks.
WakersLocked == wlock # "free"

\* ------------------------------------------------------------- Init
\* The runtime before the host program has spawned anything: reactor::start
\* has run (next_id 1, empty waker table, event loop waiting).
RuntimeInit ==
    /\ pc = [e \in Execs |-> "idle"]
    /\ cur = [e \in Execs |-> NoCur]
    /\ tasks = [e \in Execs |-> EmptyTable]
    /\ ready_queue = [e \in Execs |-> <<>>]
    /\ next_id = [e \in Execs |-> 0]
    /\ token = [e \in Execs |-> FALSE]
    /\ wakers = [i \in Iids |-> NoWaker]
    /\ rnext_id = 1
    /\ rpc = "wait"
    /\ revents = {}
    /\ rwaker = NoWaker
    /\ rtoken = 0
    /\ sock = [i \in Iids |-> NewSock]
    /\ registered = {}
    /\ edge = {}
    /\ rlog = [i \in Iids |-> <<>>]
    /\ readyCnt = [i \in Iids |-> 0]
    /\ pollsAfter = [i \in Iids |-> 0]
    /\ owner = [e \in Execs |-> [i \in TaskIds |-> {}]]
    /\ wlock = "free"
    /\ qlock = [e \in Execs |-> "free"]

\* No set_waker/deregister call has been made yet.
NoCall == [op |-> "none", id |-> 0, w |-> NoWaker, old |-> NoWaker]

\* reactor::start has been called once, by the main thread, and has returned:
\* the OnceLock is filled and one event-loop thread runs.
Started ==
    /\ REACTOR = "A"
    /\ loop_threads = {"A"}
    /\ start_pc = [t \in Execs |-> IF t = "A" THEN "done" ELSE "none"]
    /\ call = NoCall

\* ch04 main after its setup loop: the 5 streams are connected, non-blocking,
\* have their request written and are registered (EPOLLIN | EPOLLET) under
\* their index; nothing is handled yet.
EpIdle ==
    /\ ep_pc = "loop"
    /\ ep_sock = [i \in 0..(n_events - 1) |-> [avail |-> 0, closed |-> FALSE]]
    /\ ep_edge = {}
    /\ ep_sent = 0
    /\ handled_ids = {}
    /\ handled_events = 0
    /\ ep_eof = {}
    /\ ep_dups = {}

\* Runtime::new: the base thread (slot 0) is Running, the threads made by
\* (1..MAX_THREADS).map(|_| Thread::new()) are Available, current is 0.
Runtime_new ==
    [threads |-> [i \in Slots |-> IF i = 0 THEN "Running" ELSE "Available"],
     current |-> 0]

\* The fiber example is not running.
FiberIdle ==
    /\ f_pc = "off"
    /\ threads = Runtime_new.threads
    /\ current = Runtime_new.current
    /\ f_left = [i \in Slots |-> 0]
    /\ f_spawned = 0
    /\ f_done = 0

\* No JoinAll has been built.
JoinIdle ==
    /\ jfutures = <<>>
    /\ jfinished_count = 0
    /\ jresult = "none"
    /\ jpolls = 0
    /\ jsubPolls = <<>>
    /\ jsubReady = <<>>
    /\ jlast = <<>>

\* Coroutine::new: state Start; no Http::get yet.
CoIdle ==
    /\ co_state = "Start"
    /\ co_fut = NoFut
    /\ co_sock = [n \in 1..2 |-> NewSock]
    /\ co_result = "none"
    /\ co_log = <<>>
    /\ co_made = {}

Init == RuntimeInit /\ JoinIdle /\ CoIdle /\ Started /\ EpIdle /\ FiberIdle

\* ------------------------------------------------- executor: helpers
\* Mutant: spawn forgets to advance the counter.
NextIdAfter_Same(id) == id

\* ExecutorCore.next_id after spawn stored a task under `id`.
NextIdAfter(id) == id + 1

\* HashMap::insert / Executor::insert_task on one executor's table.
insert_task(t, id, fut) == [t EXCEPT ![id] = fut]

\* Executor::get_future: HashMap::remove.
remove_task(t, id) == [t EXCEPT ![id] = NoFut]

\* Executor::pop_ready: Vec::pop takes the LAST element.
pop_ready(q) == [id |-> q[Len(q)], rest |-> SubSeq(q, 1, Len(q) - 1)]

\* Mutant: block_on never puts a polled task back.
AfterPoll_Drop(t, id, fut, result) == t

\* Mutant: block_on reinserts the task whatever poll returned.
AfterPoll_Reinsert(t, id, fut, result) == insert_task(t, id, fut)

\* block_on, after future.poll returned `result`: NotReady puts the future
\* back under its id, Ready drops it.
AfterPoll(t, id, fut, result) ==
    IF result = "NotReady" THEN insert_task(t, id, fut) ELSE t

\* Mutant: block_on unwraps get_future's result.
MissingTaskPc_Unwrap == "panicked"

\* block_on, get_future returned None: `None => continue` goes on popping.
MissingTaskPc == "pop"

\* Mutant: block_on breaks as soon as the ready queue is empty.
ShouldPark_Never(e) == FALSE

\* Mutant: block_on parks whenever the ready queue is empty.
ShouldPark_Always(e) == TRUE

\* block_on, once pop_ready returned None: park iff tasks remain.
ShouldPark(e) == task_count(e) > 0

\* Waker::wake, first half: push the bound id under the queue lock.
WakePush(q, w) == [q EXCEPT ![w.thread] = Append(@, w.id)]

\* Mutant: wake pushes the id and does not unpark.
WakeUnpark_Lost(tok, w) == tok

\* Mutant: wake unparks only a thread that is blocked in park.
WakeUnpark_IfParked(tok, w) ==
    IF pc[w.thread] = "parked" THEN [tok EXCEPT ![w.thread] = TRUE] ELSE tok

\* Waker::wake, second half: self.thread.unpark() sets the park token.
WakeUnpark(tok, w) == [tok EXCEPT ![w.thread] = TRUE]

\* Mutant: set_waker keeps a Waker that is already stored (entry().or_insert).
set_waker_KeepOld(ws, w, iid) ==
    IF ws[iid] = NoWaker THEN [ws EXCEPT ![iid] = w] ELSE ws

\* Mutant: set_waker takes the lock and stores nothing.
set_waker_Drop(ws, w, iid) == ws

\* Reactor::set_waker: HashMap::insert overwrites.
set_waker(ws, w, iid) == [ws EXCEPT ![iid] = w]

\* Reactor::deregister, first statement: wakers.remove(&id).
remove_waker(ws, iid) == [ws EXCEPT ![iid] = NoWaker]

\* Mutant: a token without a Waker falls back to some stored Waker.
LookupWaker_Any(ws, t) ==
    IF ws[t] # NoWaker \/ \A u \in Iids : ws[u] = NoWaker
        THEN ws[t]
        ELSE ws[CHOOSE u \in Iids : ws[u] # NoWaker]

\* event_loop: wakers.get(&id)
LookupWaker(ws, t) == ws[t]

\* TcpStream::read on a non-blocking socket, by the socket's state.
ReadOutcome(s) ==
    IF s.avail > 0 THEN "data"
    ELSE IF s.closed THEN "eof" ELSE "would_block"

\* Mutant: a read that returned data ends the poll with NotReady instead of
\* reading again.
ReadNext_StopAfterData(outcome) ==
    IF outcome = "eof" THEN "dereg_wakers" ELSE "set_waker2"

\* HttpGetFuture::poll, the match on stream.read: Ok(0) goes on to deregister
\* and Ready, Ok(n) to `continue` (the next read), WouldBlock to set_waker and
\* NotReady.
ReadNext(outcome) ==
    IF outcome = "eof" THEN "dereg_wakers"
    ELSE IF outcome = "data" THEN "read"
    ELSE "set_waker2"

\* Mutant: poll takes the first-poll branch every time.
PollEntry_Always(fut) == "connect"

\* HttpGetFuture::poll: `if self.stream.is_none()` selects the first-poll
\* branch (connect, register, set_waker); otherwise poll goes to the read loop.
PollEntry(fut) == IF fut.stream THEN "read" ELSE "connect"

\* Mutant: the first-poll branch leaves out Reactor::set_waker.
FirstPollNext_SkipWaker(step) ==
    IF step = "connect" THEN "register" ELSE "read"

\* Mutant: the first-poll branch ends the poll with NotReady after set_waker
\* (set_waker, then no read), as the leaf of ch07/a does.
FirstPollNext_NoRead(step) ==
    IF step = "connect" THEN "register"
    ELSE IF step = "register" THEN "set_waker1"
    ELSE "set_waker2"

\* HttpGetFuture::poll, the `if self.stream.is_none()` block: write_request,
\* then Reactor::register, then Reactor::set_waker; the block has no return,
\* so the poll goes on into the read loop.
FirstPollNext(step) ==
    IF step = "connect" THEN "register"
    ELSE IF step = "register" THEN "set_waker1"
    ELSE "read"

\* ------------------------------------------------- executor: spawn
\* Mutant: next_id reads the counter without advancing it.
FetchAdd_NoInc(v) == [ret |-> v, new |-> v]

\* Reactor::next_id: AtomicUsize::fetch_add(1, Relaxed) returns the old value
\* and stores old + 1, in one atomic step.
FetchAdd(v) == [ret |-> v, new |-> v + 1]

\* Mutant: spawn always stores under id 0.
SpawnId_Zero(n) == 0

\* spawn: `let id = e.next_id.get()`, the id the task is stored under.
SpawnId(n) == n

\* Mutant: spawn stores the task and does not queue its id.
SpawnPush_Skip(q, id) == q

\* spawn: e.ready_queue.lock().map(|mut q| q.push(id))
SpawnPush(q, id) == Append(q, id)

\* spawn(future), with the future built by Http::get (HttpGetFuture::new takes
\* its interest id from Reactor::next_id).
spawn(e) ==
    /\ rnext_id <= MaxTasks
    /\ qlock[e] = "free"
    /\ qlock' = [qlock EXCEPT ![e] = GuardAfter("spawn", e)]
    /\ LET id == SpawnId(next_id[e])
           fut == NewFuture(FetchAdd(rnext_id).ret)
       IN /\ tasks' = [tasks EXCEPT ![e] = insert_task(@, id, fut)]
          /\ ready_queue' = [ready_queue EXCEPT ![e] = SpawnPush(@, id)]
          /\ next_id' = [next_id EXCEPT ![e] = NextIdAfter(id)]
          /\ owner' = [owner EXCEPT ![e][id] = @ \cup {fut.iid}]
    /\ rnext_id' = FetchAdd(rnext_id).new

\* The host program calls spawn on a thread that is not inside block_on.
HostSpawn(e) ==
    /\ pc[e] = "idle"
    /\ spawn(e)
    /\ UNCHANGED <<notRuntime, wlock, pc, cur, token, wakers, reactorVars, sock, registered, edge,
                   rlog, readyCnt, pollsAfter>>

\* Executor::block_on: spawn(future), then enter the loop.
BlockOn(e) ==
    /\ pc[e] = "idle"
    /\ spawn(e)
    /\ pc' = [pc EXCEPT ![e] = "pop"]
    /\ UNCHANGED <<notRuntime, wlock, cur, token, wakers, reactorVars, sock, registered, edge,
                   rlog, readyCnt, pollsAfter>>

\* A task body calls spawn while it is being polled.
SpawnInPoll(e) ==
    /\ pc[e] \in {"connect", "read"}
    /\ spawn(e)
    /\ UNCHANGED <<notRuntime, wlock, pc, cur, token, wakers, reactorVars, sock, registered, edge,
                   rlog, readyCnt, pollsAfter>>

\* ------------------------------------------------- executor: block_on loop
\* `while let Some(id) = self.pop_ready()` with a task under the id:
\* get_future removes it, get_waker builds the Waker, poll starts.
PopTask(e) ==
    /\ pc[e] = "pop"
    /\ ready_queue[e] # <<>>
    /\ LET p == pop_ready(ready_queue[e]) IN
       /\ InTable(e, p.id)
       /\ ready_queue' = [ready_queue EXCEPT ![e] = p.rest]
       /\ cur' = [cur EXCEPT ![e] = [id |-> p.id, fut |-> tasks[e][p.id],
                                     first |-> ~tasks[e][p.id].stream,
                                     direct |-> FALSE]]
       /\ tasks' = [tasks EXCEPT ![e] = remove_task(@, p.id)]
       /\ pc' = [pc EXCEPT ![e] = PollEntry(tasks[e][p.id])]
       /\ pollsAfter' = [pollsAfter EXCEPT ![tasks[e][p.id].iid] =
                            IF readyCnt[tasks[e][p.id].iid] > 0 THEN @ + 1 ELSE @]
    /\ qlock[e] = "free"
    /\ qlock' = [qlock EXCEPT ![e] = GuardAfter("pop_ready", e)]
    /\ UNCHANGED <<notRuntime, wlock, next_id, token, wakers, rnext_id, reactorVars, sock,
                   registered, edge, rlog, readyCnt, owner>>

\* pop_ready returned an id with no entry in the table: `None => continue`.
PopStale(e) ==
    /\ pc[e] = "pop"
    /\ ready_queue[e] # <<>>
    /\ LET p == pop_ready(ready_queue[e]) IN
       /\ ~InTable(e, p.id)
       /\ ready_queue' = [ready_queue EXCEPT ![e] = p.rest]
    /\ pc' = [pc EXCEPT ![e] = MissingTaskPc]
    /\ qlock[e] = "free"
    /\ qlock' = [qlock EXCEPT ![e] = GuardAfter("pop_ready", e)]
    /\ UNCHANGED <<notRuntime, wlock, cur, tasks, next_id, token, wakers, rnext_id,
                   reactorVars, sock, registered, edge, histVars>>

\* pop_ready returned None: task_count decides between park and break.
PopNone(e) ==
    /\ pc[e] = "pop"
    /\ ready_queue[e] = <<>>
    /\ pc' = [pc EXCEPT ![e] = IF ShouldPark(e) THEN "park_call" ELSE "idle"]
    /\ qlock[e] = "free"
    /\ qlock' = [qlock EXCEPT ![e] = GuardAfter("pop_ready", e)]
    /\ UNCHANGED <<notRuntime, wlock, cur, tasks, ready_queue, next_id, token, wakers, rnext_id,
                   reactorVars, sock, registered, edge, histVars>>

\* thread::park() is called: it returns at once if the token is set.
ParkCall(e) ==
    /\ pc[e] = "park_call"
    /\ IF token[e]
          THEN /\ token' = [token EXCEPT ![e] = FALSE]
               /\ pc' = [pc EXCEPT ![e] = "pop"]
          ELSE /\ token' = token
               /\ pc' = [pc EXCEPT ![e] = "parked"]
    /\ UNCHANGED <<notRuntime, lockVars, cur, tasks, ready_queue, next_id, wakers, rnext_id,
                   reactorVars, sock, registered, edge, histVars>>

\* The thread blocked in park is unparked: park consumes the token.
ParkReturn(e) ==
    /\ pc[e] = "parked"
    /\ token[e]
    /\ token' = [token EXCEPT ![e] = FALSE]
    /\ pc' = [pc EXCEPT ![e] = "pop"]
    /\ UNCHANGED <<notRuntime, lockVars, cur, tasks, ready_queue, next_id, wakers, rnext_id,
                   reactorVars, sock, registered, edge, histVars>>

\* thread::park may also return spuriously.
ParkSpurious(e) ==
    /\ pc[e] = "parked"
    /\ ~token[e]
    /\ pc' = [pc EXCEPT ![e] = "pop"]
    /\ UNCHANGED <<notRuntime, lockVars, cur, tasks, ready_queue, next_id, token, wakers, rnext_id,
                   reactorVars, sock, registered, edge, histVars>>

\* ------------------------------------------------- HttpGetFuture::poll
\* First poll: write_request connects and stores the stream.
Connect(e) ==
    /\ pc[e] = "connect"
    /\ sock' = [sock EXCEPT ![cur[e].fut.iid].conn = TRUE]
    /\ cur' = [cur EXCEPT ![e].fut.stream = TRUE]
    /\ pc' = [pc EXCEPT ![e] = FirstPollNext("connect")]
    /\ UNCHANGED <<notRuntime, lockVars, tasks, ready_queue, next_id, token, wakers, rnext_id,
                   reactorVars, registered, edge, histVars>>

\* First poll: Reactor::register. Adding a source that is already readable
\* reports it (edge-triggered epoll).
Register(e) ==
    /\ pc[e] = "register"
    /\ LET i == cur[e].fut.iid IN
       /\ registered' = registered \cup {i}
       /\ edge' = IF ReadOutcome(sock[i]) # "would_block"
                     THEN edge \cup {i} ELSE edge
       /\ rlog' = [rlog EXCEPT ![i] = Append(@, "register")]
    /\ pc' = [pc EXCEPT ![e] = FirstPollNext("register")]
    /\ UNCHANGED <<notRuntime, lockVars, cur, tasks, ready_queue, next_id, token, wakers, rnext_id,
                   reactorVars, sock, readyCnt, pollsAfter, owner>>

\* First poll: Reactor::set_waker(waker, self.id), then on to the read loop.
SetWaker1(e) ==
    /\ pc[e] = "set_waker1"
    /\ ~WakersLocked
    /\ wakers' = set_waker(wakers, get_waker(e, cur[e].id), cur[e].fut.iid)
    /\ pc' = [pc EXCEPT ![e] = FirstPollNext("set_waker1")]
    /\ wlock' = GuardAfter("set_waker", e)
    /\ UNCHANGED <<notRuntime, qlock, cur, tasks, ready_queue, next_id, token, rnext_id,
                   reactorVars, sock, registered, edge, histVars>>

\* read returned Ok(n), n > 0: extend the buffer and read again.
ReadData(e) ==
    /\ pc[e] = "read"
    /\ ReadOutcome(sock[cur[e].fut.iid]) = "data"
    /\ sock' = [sock EXCEPT ![cur[e].fut.iid].avail = @ - 1]
    /\ cur' = [cur EXCEPT ![e].fut.buffer = @ + 1]
    /\ pc' = [pc EXCEPT ![e] = ReadNext("data")]
    /\ UNCHANGED <<notRuntime, lockVars, tasks, ready_queue, next_id, token, wakers, rnext_id,
                   reactorVars, registered, edge, histVars>>

\* read returned Ok(0): poll goes on to Reactor::deregister.
ReadEof(e) ==
    /\ pc[e] = "read"
    /\ ReadOutcome(sock[cur[e].fut.iid]) = "eof"
    /\ pc' = [pc EXCEPT ![e] = ReadNext("eof")]
    /\ UNCHANGED <<notRuntime, lockVars, cur, tasks, ready_queue, next_id, token, wakers, rnext_id,
                   reactorVars, sock, registered, edge, histVars>>

\* read returned WouldBlock: poll goes on to Reactor::set_waker.
ReadWouldBlock(e) ==
    /\ pc[e] = "read"
    /\ ReadOutcome(sock[cur[e].fut.iid]) = "would_block"
    /\ pc' = [pc EXCEPT ![e] = ReadNext("would_block")]
    /\ UNCHANGED <<notRuntime, lockVars, cur, tasks, ready_queue, next_id, token, wakers, rnext_id,
                   reactorVars, sock, registered, edge, histVars>>

\* read returned any other error, ErrorKind::Interrupted included (the match
\* has no arm for it): `Err(e) => panic!`; the thread unwinds.
ReadErr(e) ==
    /\ pc[e] = "read"
    /\ pc' = [pc EXCEPT ![e] = "panicked"]
    /\ UNCHANGED <<notRuntime, lockVars, cur, tasks, ready_queue, next_id, token, wakers, rnext_id,
                   reactorVars, sock, registered, edge, histVars>>

\* WouldBlock: set_waker, poll returns NotReady, block_on reinserts the task.
SetWaker2(e) ==
    /\ pc[e] = "set_waker2"
    /\ ~cur[e].direct
    /\ ~WakersLocked
    /\ wakers' = set_waker(wakers, get_waker(e, cur[e].id), cur[e].fut.iid)
    /\ tasks' = [tasks EXCEPT ![e] = AfterPoll(@, cur[e].id, cur[e].fut, "NotReady")]
    /\ cur' = [cur EXCEPT ![e] = NoCur]
    /\ pc' = [pc EXCEPT ![e] = "pop"]
    /\ wlock' = GuardAfter("set_waker", e)
    /\ UNCHANGED <<notRuntime, qlock, ready_queue, next_id, token, rnext_id, reactorVars, sock,
                   registered, edge, histVars>>

\* Ok(0): Reactor::deregister is called; it first removes the Waker.
DeregWakers(e) ==
    /\ pc[e] = "dereg_wakers"
    /\ ~WakersLocked
    /\ wakers' = remove_waker(wakers, cur[e].fut.iid)
    /\ rlog' = [rlog EXCEPT ![cur[e].fut.iid] = Append(@, "deregister")]
    /\ pc' = [pc EXCEPT ![e] = "dereg_registry"]
    /\ wlock' = GuardAfter("deregister", e)
    /\ UNCHANGED <<notRuntime, qlock, cur, tasks, ready_queue, next_id, token, rnext_id,
                   reactorVars, sock, registered, edge, readyCnt, pollsAfter,
                   owner>>

\* Ok(0): registry.deregister, poll returns Ready, block_on drops the task.
DeregRegistry(e) ==
    /\ pc[e] = "dereg_registry"
    /\ ~cur[e].direct
    /\ registered' = registered \ {cur[e].fut.iid}
    /\ edge' = edge \ {cur[e].fut.iid}
    /\ readyCnt' = [readyCnt EXCEPT ![cur[e].fut.iid] = @ + 1]
    /\ tasks' = [tasks EXCEPT ![e] = AfterPoll(@, cur[e].id, cur[e].fut, "Ready")]
    /\ cur' = [cur EXCEPT ![e] = NoCur]
    /\ pc' = [pc EXCEPT ![e] = "pop"]
    /\ UNCHANGED <<notRuntime, lockVars, ready_queue, next_id, token, wakers, rnext_id, reactorVars,
                   sock, rlog, pollsAfter, owner>>

\* ------------------------------------------------- reactor: event_loop
\* Where the for loop goes after an event: the next event, or poll.poll again.
AfterEvent(evs) == IF evs = {} THEN "wait" ELSE "dispatch"

\* poll.poll returns the pending readiness events.
RWait ==
    /\ rpc = "wait"
    /\ edge # {}
    /\ revents' = edge
    /\ edge' = {}
    /\ rpc' = "dispatch"
    /\ UNCHANGED <<notRuntime, lockVars, execVars, wakers, rnext_id, rwaker, rtoken, sock,
                   registered, histVars>>

\* An event whose token has a Waker: the loop locks the table, finds the
\* Waker and, still holding the guard, calls wake.
RLookupHit(t) ==
    /\ rpc = "dispatch"
    /\ t \in revents
    /\ LookupWaker(wakers, t) # NoWaker
    /\ rwaker' = LookupWaker(wakers, t)
    /\ rtoken' = t
    /\ revents' = revents \ {t}
    /\ rpc' = "wake_push"
    /\ ~WakersLocked
    /\ wlock' = GuardAfter("event_loop", "reactor")
    /\ UNCHANGED <<notRuntime, qlock, execVars, wakers, rnext_id, sock, registered, edge,
                   histVars>>

\* An event whose token has no Waker: nothing is done for it, and the guard
\* is dropped as the loop body ends.
RLookupMiss(t) ==
    /\ rpc = "dispatch"
    /\ t \in revents
    /\ LookupWaker(wakers, t) = NoWaker
    /\ revents' = revents \ {t}
    /\ rpc' = AfterEvent(revents \ {t})
    /\ ~WakersLocked
    /\ wlock' = "free"
    /\ UNCHANGED <<notRuntime, qlock, execVars, wakers, rnext_id, rwaker, rtoken, sock,
                   registered, edge, histVars>>

\* Waker::wake: ready_queue.lock().push(self.id)
RWakePush ==
    /\ rpc = "wake_push"
    /\ ready_queue' = WakePush(ready_queue, rwaker)
    /\ rpc' = "wake_unpark"
    /\ qlock[rwaker.thread] = "free"
    /\ qlock' = [qlock EXCEPT ![rwaker.thread] = GuardAfter("wake", "reactor")]
    /\ UNCHANGED <<notRuntime, wlock, pc, cur, tasks, next_id, token, wakers, rnext_id, revents,
                   rwaker, rtoken, sock, registered, edge, histVars>>

\* Waker::wake: self.thread.unpark(); the iteration ends, the lock is dropped.
RWakeUnpark ==
    /\ rpc = "wake_unpark"
    /\ token' = WakeUnpark(token, rwaker)
    /\ rwaker' = NoWaker
    /\ rtoken' = 0
    /\ rpc' = AfterEvent(revents)
    /\ wlock' = "free"
    /\ UNCHANGED <<notRuntime, qlock, pc, cur, tasks, ready_queue, next_id, wakers, rnext_id,
                   revents, sock, registered, edge, histVars>>

\* ------------------------------------------------- the peer
\* Chunks sent so far on the sockets of S.
RECURSIVE SentOn(_)
SentOn(S) ==
    IF S = {} THEN 0
    ELSE LET i == CHOOSE x \in S : TRUE IN sock[i].sent + SentOn(S \ {i})

\* The server sends a chunk: a readiness edge if the socket is registered.
ServerSend(i) ==
    /\ sock[i].conn
    /\ ~sock[i].closed
    /\ SentOn(Iids) < MaxChunks
    /\ sock' = [sock EXCEPT ![i].avail = @ + 1, ![i].sent = @ + 1]
    /\ edge' = IF i \in registered THEN edge \cup {i} ELSE edge
    /\ UNCHANGED <<notRuntime, lockVars, execVars, wakers, rnext_id, reactorVars, registered,
                   histVars>>

\* The server closes the connection (Connection: close).
ServerClose(i) ==
    /\ sock[i].conn
    /\ ~sock[i].closed
    /\ sock' = [sock EXCEPT ![i].closed = TRUE]
    /\ edge' = IF i \in registered THEN edge \cup {i} ELSE edge
    /\ UNCHANGED <<notRuntime, lockVars, execVars, wakers, rnext_id, reactorVars, registered,
                   histVars>>

\* ------------------------------------------------- specifications
ExecStep(e) ==
    \/ PopTask(e) \/ PopStale(e) \/ PopNone(e)
    \/ ParkCall(e) \/ ParkReturn(e)
    \/ Connect(e) \/ Register(e) \/ SetWaker1(e)
    \/ ReadData(e) \/ ReadEof(e) \/ ReadWouldBlock(e)
    \/ SetWaker2(e) \/ DeregWakers(e) \/ DeregRegistry(e)

HostStep(e) == HostSpawn(e) \/ BlockOn(e) \/ SpawnInPoll(e)

ReactorStep ==
    \/ RWait
    \/ \E t \in Iids : RLookupHit(t) \/ RLookupMiss(t)
    \/ RWakePush
    \/ RWakeUnpark

PeerStep == \E i \in Iids : ServerSend(i) \/ ServerClose(i)

Next ==
    \/ \E e \in Main : ExecStep(e) \/ HostStep(e) \/ ParkSpurious(e) \/ ReadErr(e)
    \/ ReactorStep
    \/ PeerStep

Spec == Init /\ [][Next]_vars

\* The runtime under the assumptions of its liveness claims: running threads
\* keep running (weak fairness of the executor and the event-loop thread) and
\* no socket read fails.
LiveNext ==
    \/ \E e \in Main : ExecStep(e) \/ HostStep(e) \/ ParkSpurious(e)
    \/ ReactorStep
    \/ PeerStep

LiveSpec ==
    /\ Init
    /\ [][LiveNext]_vars
    /\ \A e \in Main : WF_vars(ExecStep(e))
    /\ WF_vars(ReactorStep)

\* The runtime under the assumptions of its termination claim: the threads
\* keep running, no read fails, and the peer of every connected socket
\* closes it in the end (each response reaches end-of-stream).
TermSpec ==
    /\ Init
    /\ [][LiveNext]_vars
    /\ \A e \in Main : WF_vars(ExecStep(e))
    /\ WF_vars(ReactorStep)
    /\ \A i \in Iids : WF_vars(ServerClose(i))

\* Several executor threads, each running block_on on its own thread-local
\* ExecutorCore, with the one reactor.
MultiNext ==
    \/ \E e \in Execs : ExecStep(e) \/ BlockOn(e) \/ ParkSpurious(e)
    \/ ReactorStep
    \/ PeerStep

MultiSpec == Init /\ [][MultiNext]_vars

\* ------------------------------------------------- ch09/c: block_on
\* usize::MAX, as far as the checker's integers go: above every id that
\* spawn can allocate.
usize_MAX == 2147483647

\* block_on (ch09/c): `let waker = self.get_waker(usize::MAX)`.
PlaceholderWaker(e) == get_waker(e, usize_MAX)

\* block_on (ch09/c) is called with a future built by Http::get and polls it
\* directly, with the placeholder Waker, before anything is spawned.
BlockOnDirect(e) ==
    /\ pc[e] = "idle"
    /\ rnext_id <= MaxTasks
    /\ LET fut == NewFuture(FetchAdd(rnext_id).ret) IN
       /\ cur' = [cur EXCEPT ![e] = [id |-> PlaceholderWaker(e).id, fut |-> fut,
                                     first |-> TRUE, direct |-> TRUE]]
       /\ pc' = [pc EXCEPT ![e] = PollEntry(fut)]
    /\ rnext_id' = FetchAdd(rnext_id).new
    /\ UNCHANGED <<notRuntime, lockVars, tasks, ready_queue, next_id, token, wakers,
                   reactorVars, sock, registered, edge, histVars>>

\* The direct poll reads WouldBlock: set_waker stores the placeholder Waker,
\* poll returns NotReady and block_on goes on to `spawn(future)`.
DirectSetWaker2(e) ==
    /\ pc[e] = "set_waker2"
    /\ cur[e].direct
    /\ ~WakersLocked
    /\ wakers' = set_waker(wakers, get_waker(e, cur[e].id), cur[e].fut.iid)
    /\ pc' = [pc EXCEPT ![e] = "direct_spawn"]
    /\ wlock' = GuardAfter("set_waker", e)
    /\ UNCHANGED <<notRuntime, qlock, cur, tasks, ready_queue, next_id, token, rnext_id,
                   reactorVars, sock, registered, edge, histVars>>

\* block_on (ch09/c), `spawn(future)` after NotReady: the future is stored
\* under the thread's next id and the id is queued; then the loop starts.
DirectSpawn(e) ==
    /\ pc[e] = "direct_spawn"
    /\ qlock[e] = "free"
    /\ qlock' = [qlock EXCEPT ![e] = GuardAfter("spawn", e)]
    /\ LET id == SpawnId(next_id[e]) IN
       /\ tasks' = [tasks EXCEPT ![e] = insert_task(@, id, cur[e].fut)]
       /\ ready_queue' = [ready_queue EXCEPT ![e] = SpawnPush(@, id)]
       /\ next_id' = [next_id EXCEPT ![e] = NextIdAfter(id)]
       /\ owner' = [owner EXCEPT ![e][id] = @ \cup {cur[e].fut.iid}]
    /\ cur' = [cur EXCEPT ![e] = NoCur]
    /\ pc' = [pc EXCEPT ![e] = "pop"]
    /\ UNCHANGED <<notRuntime, wlock, token, wakers, rnext_id, reactorVars, sock, registered,
                   edge, rlog, readyCnt, pollsAfter>>

\* The direct poll reads Ok(0): deregister, poll returns Ready and block_on
\* returns (`PollState::Ready(_) => return`).
DirectDeregRegistry(e) ==
    /\ pc[e] = "dereg_registry"
    /\ cur[e].direct
    /\ registered' = registered \ {cur[e].fut.iid}
    /\ edge' = edge \ {cur[e].fut.iid}
    /\ readyCnt' = [readyCnt EXCEPT ![cur[e].fut.iid] = @ + 1]
    /\ cur' = [cur EXCEPT ![e] = NoCur]
    /\ pc' = [pc EXCEPT ![e] = "idle"]
    /\ UNCHANGED <<notRuntime, lockVars, tasks, ready_queue, next_id, token, wakers, rnext_id,
                   reactorVars, sock, rlog, pollsAfter, owner>>

DirectStep(e) ==
    \/ ExecStep(e)
    \/ DirectSetWaker2(e) \/ DirectSpawn(e) \/ DirectDeregRegistry(e)

DirectNext ==
    \/ \E e \in Main : DirectStep(e) \/ BlockOnDirect(e) \/ HostSpawn(e) \/ ParkSpurious(e)
    \/ ReactorStep
    \/ PeerStep

\* ch09/c's block_on with its threads running and every response reaching
\* its end.
DirectSpec ==
    /\ Init
    /\ [][DirectNext]_vars
    /\ \A e \in Main : WF_vars(DirectStep(e))
    /\ WF_vars(ReactorStep)
    /\ \A i \in Iids : WF_vars(ServerClose(i))

\* ------------------------------------------------- reactor::start, the API
\* Mutant: start stores its Reactor whether or not one is installed.
OnceSet_Overwrite(cell, v) == [cell |-> v, ok |-> TRUE]

\* OnceLock::set: fills an empty cell and returns Ok; a filled cell is left
\* as it is and the call returns Err.
OnceSet(cell, v) ==
    IF cell = "unset" THEN [cell |-> v, ok |-> TRUE]
                      ELSE [cell |-> cell, ok |-> FALSE]

\* The Wakers a caller can hand to set_waker.
AllWakers == {get_waker(e, id) : e \in Execs, id \in TaskIds}

\* A thread that can make a call: not inside start, not unwound by a panic.
CanCall(t) == start_pc[t] \in {"none", "done"}

\* start, up to the REACTOR.set call: a fresh waker table, Poll, registry and
\* counter are built as locals.
StartBuild(t) ==
    /\ CanCall(t)
    /\ start_pc' = [start_pc EXCEPT ![t] = "built"]
    /\ UNCHANGED <<runtimeVars, notStart, REACTOR, loop_threads, call>>

\* start: REACTOR.set(reactor).ok().expect("Reactor already running"). On Ok
\* the installed Reactor is the one just built (empty table, next_id 1); on
\* Err the thread panics and what it built is dropped.
StartSet(t) ==
    /\ start_pc[t] = "built"
    /\ LET r == OnceSet(REACTOR, t) IN
       /\ REACTOR' = r.cell
       /\ IF r.ok
             THEN /\ wakers' = [i \in Iids |-> NoWaker]
                  /\ rnext_id' = 1
                  /\ start_pc' = [start_pc EXCEPT ![t] = "spawn"]
             ELSE /\ UNCHANGED <<wakers, rnext_id>>
                  /\ start_pc' = [start_pc EXCEPT ![t] = "panicked"]
    /\ UNCHANGED <<execVars, reactorVars, sock, registered, edge, histVars,
                   lockVars, notStart, loop_threads, call>>

\* start: spawn(move || event_loop(poll, wakers)), and start returns.
StartSpawn(t) ==
    /\ start_pc[t] = "spawn"
    /\ loop_threads' = loop_threads \cup {t}
    /\ start_pc' = [start_pc EXCEPT ![t] = "done"]
    /\ UNCHANGED <<runtimeVars, notStart, REACTOR, call>>

\* reactor() before any start: expect("Called outside an runtime context").
ApiOutside(t) ==
    /\ CanCall(t)
    /\ REACTOR = "unset"
    /\ start_pc' = [start_pc EXCEPT ![t] = "outside"]
    /\ UNCHANGED <<runtimeVars, notStart, REACTOR, loop_threads, call>>

\* reactor().next_id() called by thread t.
ApiNextId(t) ==
    /\ CanCall(t)
    /\ REACTOR # "unset"
    /\ rnext_id <= MaxTasks
    /\ rnext_id' = FetchAdd(rnext_id).new
    /\ UNCHANGED <<execVars, reactorVars, wakers, sock, registered, edge, histVars,
                   lockVars, notStart, startVars>>

\* reactor().set_waker(w, id) called by thread t for an id next_id handed out.
ApiSetWaker(t, w, id) ==
    /\ CanCall(t)
    /\ REACTOR # "unset"
    /\ id < rnext_id
    /\ ~WakersLocked
    /\ wakers' = set_waker(wakers, w, id)
    /\ wlock' = GuardAfter("set_waker", t)
    /\ call' = [op |-> "set_waker", id |-> id, w |-> w, old |-> wakers[id]]
    /\ UNCHANGED <<execVars, reactorVars, rnext_id, sock, registered, edge,
                   histVars, qlock, notStart, REACTOR, loop_threads,
                   start_pc>>

\* reactor().deregister(stream, id): the Waker of id is removed.
ApiDeregister(t, id) ==
    /\ CanCall(t)
    /\ REACTOR # "unset"
    /\ id < rnext_id
    /\ ~WakersLocked
    /\ wakers' = remove_waker(wakers, id)
    /\ wlock' = GuardAfter("deregister", t)
    /\ call' = [op |-> "deregister", id |-> id, w |-> NoWaker, old |-> wakers[id]]
    /\ UNCHANGED <<execVars, reactorVars, rnext_id, sock, registered, edge,
                   histVars, qlock, notStart, REACTOR, loop_threads,
                   start_pc>>

\* The process before any thread has called reactor::start.
ReactorInit ==
    /\ RuntimeInit
    /\ JoinIdle
    /\ CoIdle
    /\ EpIdle
    /\ FiberIdle
    /\ REACTOR = "unset"
    /\ loop_threads = {}
    /\ start_pc = [t \in Execs |-> "none"]
    /\ call = NoCall

ReactorNext ==
    \E t \in Execs :
        \/ StartBuild(t) \/ StartSet(t) \/ StartSpawn(t)
        \/ ApiOutside(t) \/ ApiNextId(t)
        \/ \E id \in Iids : ApiDeregister(t, id)
                            \/ \E w \in AllWakers : ApiSetWaker(t, w, id)

ReactorSpec == ReactorInit /\ [][ReactorNext]_vars

\* ------------------------------------------------- ch07/c: JoinAll
\* join_all(futures): every sub-task paired with finished = false, count 0.
join_all(n) ==
    [futures |-> [k \in 1..n |-> [finished |-> FALSE]], finished_count |-> 0]

\* What a sub-task's poll can return.
PollStates == {"Ready", "NotReady"}

\* Mutant: a sub-task that returned Ready is counted but not flagged.
JoinSlot_NoFlag(st, k, out) ==
    IF st.futures[k].finished THEN st
    ELSE IF out = "Ready"
        THEN [st EXCEPT !.finished_count = @ + 1, !.polled = Append(@, k)]
        ELSE [st EXCEPT !.polled = Append(@, k)]

\* JoinAll::poll, the body of the for loop for slot k, `out` being what the
\* sub-task returns if it is polled: a finished slot is skipped; Ready sets
\* the flag and counts; NotReady continues with the next slot.
JoinSlot(st, k, out) ==
    IF st.futures[k].finished THEN st
    ELSE IF out = "Ready"
        THEN [st EXCEPT !.futures[k].finished = TRUE,
                        !.finished_count = @ + 1,
                        !.polled = Append(@, k)]
        ELSE [st EXCEPT !.polled = Append(@, k)]

\* Mutant: the scan stops at the first sub-task that returns NotReady.
JoinNextSlot_StopAtNotReady(st, k, out) ==
    IF ~st.futures[k].finished /\ out = "NotReady"
        THEN Len(st.futures) + 1
        ELSE k + 1

\* JoinAll::poll, the slot the for loop visits after slot k: the next one,
\* whether slot k was skipped, returned Ready or returned NotReady (each arm
\* ends the iteration, none ends the loop).
JoinNextSlot(st, k, out) == k + 1

\* JoinAll::poll, the for loop over self.futures.iter_mut(), from slot k on.
RECURSIVE JoinScan(_, _, _)
JoinScan(st, k, outs) ==
    IF k > Len(st.futures) THEN st
    ELSE JoinScan(JoinSlot(st, k, outs[k]), JoinNextSlot(st, k, outs[k]), outs)

\* Mutant: Ready as soon as the count is one short of the slots.
JoinResult_OffByOne(cnt, n) ==
    IF cnt + 1 >= n THEN "Ready" ELSE "NotReady"

\* JoinAll::poll, after the loop: Ready iff finished_count == futures.len().
JoinResult(cnt, n) == IF cnt = n THEN "Ready" ELSE "NotReady"

\* The program builds a JoinAll over n sub-tasks.
JoinInit ==
    /\ RuntimeInit
    /\ CoIdle
    /\ Started
    /\ EpIdle
    /\ FiberIdle
    /\ \E n \in 0..MaxSlots :
        /\ jfutures = join_all(n).futures
        /\ jfinished_count = join_all(n).finished_count
        /\ jsubPolls = [k \in 1..n |-> 0]
        /\ jsubReady = [k \in 1..n |-> 0]
    /\ jresult = "none"
    /\ jpolls = 0
    /\ jlast = <<>>

\* One JoinAll::poll call made by the loop that drives it (the loop breaks on
\* Ready); outs[k] is what sub-task k answers in this call.
JoinPoll ==
    /\ jresult # "Ready"
    /\ jpolls < MaxJoinPolls
    /\ \E outs \in [1..Len(jfutures) -> PollStates] :
        LET st == JoinScan([futures |-> jfutures,
                            finished_count |-> jfinished_count,
                            polled |-> <<>>], 1, outs)
        IN /\ jfutures' = st.futures
           /\ jfinished_count' = st.finished_count
           /\ jresult' = JoinResult(st.finished_count, Len(st.futures))
           /\ jlast' = st.polled
           /\ jsubPolls' = [k \in 1..Len(jfutures) |->
                               IF k \in Range(st.polled)
                                   THEN jsubPolls[k] + 1 ELSE jsubPolls[k]]
           /\ jsubReady' = [k \in 1..Len(jfutures) |->
                               IF k \in Range(st.polled) /\ outs[k] = "Ready"
                                   THEN jsubReady[k] + 1 ELSE jsubReady[k]]
    /\ jpolls' = jpolls + 1
    /\ UNCHANGED notJoin

JoinNext == JoinPoll

JoinSpec == JoinInit /\ [][JoinNext]_vars

\* ------------------------------------------------- ch07/a: the leaf future
\* HttpGetFuture::poll (ch07/a-coroutine/src/http.rs) on socket s; `io` is
\* "err" when a read fails with an error other than WouldBlock/Interrupted,
\* and "intr" when a read is interrupted: `Interrupted => continue` reads
\* again, so the poll ends as one with no interruption does.
\* The first poll sends the request and returns NotReady; a later poll reads
\* until WouldBlock (NotReady) or Ok(0) (Ready).
LeafPoll(fut, s, io) ==
    IF ~fut.stream
        THEN [fut |-> [fut EXCEPT !.stream = TRUE],
              sock |-> [s EXCEPT !.conn = TRUE],
              result |-> "NotReady"]
    ELSE IF io = "err"
        THEN [fut |-> fut, sock |-> s, result |-> "panic"]
    ELSE [fut |-> [fut EXCEPT !.buffer = @ + s.avail],
          sock |-> [s EXCEPT !.avail = 0],
          result |-> IF s.closed THEN "Ready" ELSE "NotReady"]

\* ------------------------------------------------- ch07/a: Coroutine::poll
\* Http::get for stage n: a fresh HttpGetFuture (these have no interest id).
CoNewLeaf == NewFuture(0)

\* Mutant: Wait1's NotReady arm goes on to build the second sub-task before
\* it returns.
CoWait1NotReady_FallThrough(c) ==
    [c EXCEPT !.result = "NotReady",
              !.state = "Wait2",
              !.fut = CoNewLeaf,
              !.made = @ \cup {2},
              !.log = Append(@, <<"new", 2>>)]

\* State::Wait1, PollState::NotReady => break PollState::NotReady
CoWait1NotReady(c) == [c EXCEPT !.result = "NotReady"]

\* Mutant: Wait1's Ready arm skips the second stage and resolves.
CoWait1Ready_SkipStage(c) ==
    [c EXCEPT !.state = "Resolved", !.result = "Ready"]

\* State::Wait1, PollState::Ready(txt): build the second sub-task, go to Wait2
\* and loop.
CoWait1Ready(c) ==
    [c EXCEPT !.state = "Wait2",
              !.fut = CoNewLeaf,
              !.made = @ \cup {2},
              !.log = Append(@, <<"new", 2>>)]

\* Mutant: a poll of the Resolved state answers Ready once more.
CoResolvedPoll_Ready(c) == [c EXCEPT !.result = "Ready"]

\* State::Resolved => panic!("Polled a resolved future")
CoResolvedPoll(c) == [c EXCEPT !.result = "panic"]

\* Coroutine::poll: `loop { match self.state { ... } }` run until a break.
\* c.result is "none" while the loop runs.
RECURSIVE CoPollLoop(_, _)
CoPollLoop(c, io) ==
    IF c.result # "none" THEN c
    ELSE IF c.state = "Start"
        THEN CoPollLoop([c EXCEPT !.state = "Wait1",
                                  !.fut = CoNewLeaf,
                                  !.made = @ \cup {1},
                                  !.log = Append(@, <<"new", 1>>)], io)
    ELSE IF c.state = "Wait1"
        THEN LET r == LeafPoll(c.fut, c.sock[1], io)
                 d == [c EXCEPT !.fut = r.fut, !.sock[1] = r.sock,
                                !.log = Append(@, <<"poll", 1, r.result>>)]
             IN IF r.result = "Ready" THEN CoPollLoop(CoWait1Ready(d), io)
                ELSE IF r.result = "NotReady" THEN CoWait1NotReady(d)
                ELSE [d EXCEPT !.result = "panic"]
    ELSE IF c.state = "Wait2"
        THEN LET r == LeafPoll(c.fut, c.sock[2], io)
                 d == [c EXCEPT !.fut = r.fut, !.sock[2] = r.sock,
                                !.log = Append(@, <<"poll", 2, r.result>>)]
             IN IF r.result = "Ready"
                    THEN [d EXCEPT !.state = "Resolved", !.result = "Ready"]
                ELSE IF r.result = "NotReady" THEN [d EXCEPT !.result = "NotReady"]
                ELSE [d EXCEPT !.result = "panic"]
    ELSE CoResolvedPoll(c)

\* One call of Coroutine::poll, `io` being how its reads go.
CoCall ==
    /\ \E io \in {"ok", "intr", "err"} :
        LET c == CoPollLoop([state |-> co_state, fut |-> co_fut,
                             sock |-> co_sock, made |-> co_made,
                             log |-> <<>>, result |-> "none"], io)
        IN /\ co_state' = c.state
           /\ co_fut' = c.fut
           /\ co_sock' = c.sock
           /\ co_made' = c.made
           /\ co_log' = c.log
           /\ co_result' = c.result
    /\ UNCHANGED notCo

\* main: `match future.poll()` in the loop, which breaks on Ready (and a panic
\* ends the program).
CoPoll ==
    /\ co_result \in {"none", "NotReady"}
    /\ CoCall

\* A caller that polls past completion: one more poll after Ready.
CoPollResolved ==
    /\ co_result = "Ready"
    /\ CoCall

\* The server of stage n sends a chunk.
CoServerSend(n) ==
    /\ co_sock[n].conn
    /\ ~co_sock[n].closed
    /\ co_sock[n].sent < CoMaxChunks
    /\ co_sock' = [co_sock EXCEPT ![n].avail = @ + 1, ![n].sent = @ + 1]
    /\ UNCHANGED <<notCo, co_state, co_fut, co_result, co_log, co_made>>

\* The server of stage n closes the connection.
CoServerClose(n) ==
    /\ co_sock[n].conn
    /\ ~co_sock[n].closed
    /\ co_sock' = [co_sock EXCEPT ![n].closed = TRUE]
    /\ UNCHANGED <<notCo, co_state, co_fut, co_result, co_log, co_made>>

CoInit == RuntimeInit /\ JoinIdle /\ CoIdle /\ Started /\ EpIdle /\ FiberIdle

CoNext ==
    \/ CoPoll
    \/ CoPollResolved
    \/ \E n \in 1..2 : CoServerSend(n) \/ CoServerClose(n)

CoSpec == CoInit /\ [][CoNext]_vars

\* ------------------------------------------------- ch04/a-epoll
Streams == 0..(n_events - 1)

\* Mutant: the example before FIX #4, every zero-byte read is counted.
CountEof_Always(handled, index) == 1

\* handle_events, Ok(0): `if !handled.insert(index) { break; }` and
\* `handled_events += 1`: what the read adds to the count.
CountEof(handled, index) == IF index \in handled THEN 0 ELSE 1

\* handle_events, the body of `for event in events` for the event of stream
\* i: the read loop takes every unread chunk, then ends on Ok(0) if the
\* server has closed and on WouldBlock otherwise. st is what handle_events
\* has in hand: the sockets, the handled set and its local count.
EpHandleOne(st, i) ==
    IF st.sock[i].closed
        THEN [st EXCEPT !.sock[i].avail = 0,
                        !.handled = @ \cup {i},
                        !.count = @ + CountEof(st.handled, i),
                        !.dups = IF i \in st.eof THEN @ \cup {i} ELSE @,
                        !.eof = @ \cup {i}]
        ELSE [st EXCEPT !.sock[i].avail = 0]

\* handle_events, the for loop over the events of the streams in evs.
RECURSIVE EpHandleAll(_, _)
EpHandleAll(st, evs) ==
    IF evs = {} THEN st
    ELSE LET i == CHOOSE x \in evs : TRUE
         IN EpHandleAll(EpHandleOne(st, i), evs \ {i})

\* What handle_events starts from.
EpState == [sock |-> ep_sock, handled |-> handled_ids, count |-> 0,
            eof |-> ep_eof, dups |-> ep_dups]

\* One turn of main's while loop in which no read fails: poll.poll reports
\* the pending events and handle_events' count is added to the counter.
\* At most one event's first read is interrupted (`Interrupted => break`):
\* that event is dropped with its stream unread.
EpTurn ==
    /\ ep_pc = "loop"
    /\ handled_events < n_events
    /\ ep_edge # {}
    /\ \E intr \in SUBSET ep_edge :
        /\ Cardinality(intr) <= 1
        /\ LET st == EpHandleAll(EpState, ep_edge \ intr)
           IN /\ ep_sock' = st.sock
              /\ handled_ids' = st.handled
              /\ handled_events' = handled_events + st.count
              /\ ep_eof' = st.eof
              /\ ep_dups' = st.dups
    /\ ep_edge' = {}
    /\ UNCHANGED <<notEp, ep_pc, ep_sent>>

\* One turn in which a read fails with another error after the events of
\* `before` were handled: handle_events returns Err and main returns it; the
\* local count is lost with it.
EpTurnErr ==
    /\ ep_pc = "loop"
    /\ handled_events < n_events
    /\ ep_edge # {}
    /\ \E x \in ep_edge : \E before \in SUBSET (ep_edge \ {x}) :
        LET st == EpHandleAll(EpState, before)
        IN /\ ep_sock' = st.sock
           /\ handled_ids' = st.handled
           /\ ep_eof' = st.eof
           /\ ep_dups' = st.dups
    /\ ep_edge' = {}
    /\ ep_pc' = "error"
    /\ UNCHANGED <<notEp, ep_sent, handled_events>>

\* poll.poll fails: main returns the error.
EpPollErr ==
    /\ ep_pc = "loop"
    /\ handled_events < n_events
    /\ ep_pc' = "error"
    /\ UNCHANGED <<notEp, ep_sock, ep_edge, ep_sent, handled_ids, handled_events,
                   ep_eof, ep_dups>>

\* `while handled_events < n_events` fails: FINISHED.
EpFinish ==
    /\ ep_pc = "loop"
    /\ ~(handled_events < n_events)
    /\ ep_pc' = "finished"
    /\ UNCHANGED <<notEp, ep_sock, ep_edge, ep_sent, handled_ids, handled_events,
                   ep_eof, ep_dups>>

\* The server of stream i sends a chunk: a readiness edge.
EpServerSend(i) ==
    /\ ~ep_sock[i].closed
    /\ ep_sent < EpMaxChunks
    /\ ep_sock' = [ep_sock EXCEPT ![i].avail = @ + 1]
    /\ ep_sent' = ep_sent + 1
    /\ ep_edge' = ep_edge \cup {i}
    /\ UNCHANGED <<notEp, ep_pc, handled_ids, handled_events, ep_eof, ep_dups>>

\* The server of stream i closes the connection: a readiness edge.
EpServerClose(i) ==
    /\ ~ep_sock[i].closed
    /\ ep_sock' = [ep_sock EXCEPT ![i].closed = TRUE]
    /\ ep_edge' = ep_edge \cup {i}
    /\ UNCHANGED <<notEp, ep_pc, ep_sent, handled_ids, handled_events, ep_eof,
                   ep_dups>>

\* The OS reports a READ event for a stream that was already read to its
\* end (the false notification of issue #4).
EpFalseEvent(i) ==
    /\ i \in ep_eof
    /\ i \notin ep_edge
    /\ ep_edge' = ep_edge \cup {i}
    /\ UNCHANGED <<notEp, ep_pc, ep_sock, ep_sent, handled_ids, handled_events,
                   ep_eof, ep_dups>>

EpInit == RuntimeInit /\ JoinIdle /\ CoIdle /\ Started /\ EpIdle /\ FiberIdle

EpNext ==
    \/ EpTurn \/ EpTurnErr \/ EpPollErr \/ EpFinish
    \/ \E i \in Streams : EpServerSend(i) \/ EpServerClose(i) \/ EpFalseEvent(i)

EpSpec == EpInit /\ [][EpNext]_vars

\* ------------------------------------------------- claims: the runtime
Last(q) == q[Len(q)]

\* C1: no wakeup is lost. Once a task id is on the ready queue of an executor
\* that is inside block_on while its task is pending in the table (a wake that
\* landed while the task was parked, or during the poll that then returned
\* NotReady and put it back), block_on eventually takes that task off the
\* table and polls it, whatever the interleaving with the event-loop thread.
C1_NoLostWakeup ==
    \A e \in Main : \A id \in TaskIds :
        (pc[e] # "idle" /\ id \in Range(ready_queue[e]) /\ InTable(e, id))
            ~> (cur[e].id = id)

\* C1 witness: the executor found the queue empty and decided to park, and
\* before it called thread::park a wake pushed the id of a pending task.
C1_Witness ==
    \E e \in Main :
        /\ pc[e] = "park_call"
        /\ ready_queue[e] # <<>>
        /\ InTable(e, Last(ready_queue[e]))
        /\ wakers[tasks[e][Last(ready_queue[e])].iid]
               = get_waker(e, Last(ready_queue[e]))

\* C2: a task's poll returns Ready at most once, and no poll of a task starts
\* after a poll of it has returned Ready.
C2_ReadyOnce ==
    \A i \in Iids : readyCnt[i] <= 1 /\ pollsAfter[i] = 0

\* C2 witness: a task has returned Ready and a late wake has left its id on
\* the ready queue.
C2_Witness ==
    \E e \in Main : \E id \in TaskIds : \E i \in Iids :
        /\ owner[e][id] = {i}
        /\ readyCnt[i] = 1
        /\ id \in Range(ready_queue[e])

\* C3: the step in which block_on returns leaves an empty task table, and every
\* task spawned on that executor so far has returned Ready.
C3_ReturnsWhenAllDone ==
    [][\A e \in Main :
        (pc[e] # "idle" /\ pc'[e] = "idle") =>
            /\ tasks'[e] = EmptyTable
            /\ cur'[e] = NoCur
            /\ \A id \in TaskIds :
                  id < next_id'[e] =>
                      \A i \in owner'[e][id] : readyCnt'[i] >= 1]_vars

\* C3 witness: block_on has returned after the two tasks spawned on its
\* thread have both resolved.
C3_Witness ==
    \E e \in Main :
        /\ pc[e] = "idle"
        /\ next_id[e] = 2
        /\ readyCnt[1] = 1 /\ readyCnt[2] = 1

\* C4: popping an id that has no entry in the task table polls nothing: the
\* step changes no task table, takes no task for polling, lets no task
\* resolve, does not panic, and the loop goes on popping.
C4_StalePopNoOp ==
    [][\A e \in Main :
        (/\ pc[e] = "pop"
         /\ ready_queue[e] # <<>>
         /\ ~InTable(e, Last(ready_queue[e]))
         /\ Len(ready_queue'[e]) < Len(ready_queue[e])) =>
            /\ tasks' = tasks
            /\ cur' = cur
            /\ pc'[e] = "pop"
            /\ readyCnt' = readyCnt
            /\ ready_queue'[e] = SubSeq(ready_queue[e], 1, Len(ready_queue[e]) - 1)]_vars

\* C4 witness: the same id is on the ready queue twice while its task has
\* resolved and left the table, and the executor is about to pop.
C4_Witness ==
    \E e \in Main :
        /\ pc[e] = "pop"
        /\ Len(ready_queue[e]) >= 2
        /\ Last(ready_queue[e]) = ready_queue[e][Len(ready_queue[e]) - 1]
        /\ ~InTable(e, Last(ready_queue[e]))
        /\ \E i \in owner[e][Last(ready_queue[e])] : readyCnt[i] = 1

\* C5: the reactor calls of a leaf are a prefix of <<register, deregister>>:
\* nothing before its first poll, register alone while it is pending, and
\* deregister only once its socket is at end-of-stream (closed, nothing left
\* to read); a leaf that returned Ready has made exactly both calls.
C5_RegisterDeregisterOnce ==
    \A i \in Iids :
        /\ rlog[i] \in {<<>>, <<"register">>, <<"register", "deregister">>}
        /\ (rlog[i] # <<>>) => sock[i].conn
        /\ (Len(rlog[i]) = 2) => ReadOutcome(sock[i]) = "eof"
        /\ (Len(rlog[i]) = 2) =>
               \/ readyCnt[i] = 1
               \/ \E e \in Main : cur[e].fut.iid = i /\ pc[e] = "dereg_registry"
        /\ (readyCnt[i] >= 1) => rlog[i] = <<"register", "deregister">>
        /\ \A e \in Main : \A id \in TaskIds :
               (tasks[e][id].iid = i /\ tasks[e][id].stream) =>
                   rlog[i] = <<"register">>

\* C5 witness: a leaf that read data on an earlier poll, parked on would-block
\* and was polled again has returned Ready after one register and one
\* deregister.
C5_Witness ==
    \E i \in Iids :
        /\ readyCnt[i] = 1
        /\ rlog[i] = <<"register", "deregister">>
        /\ sock[i].sent >= 1

\* C8: when the event loop handles an event whose token has no Waker, it
\* invokes no Waker: no ready queue and no park token changes, no executor
\* state changes, and the loop goes on with the next event.
C8_EventWithoutWaker ==
    [][\A t \in Iids :
        (/\ rpc = "dispatch"
         /\ t \in revents
         /\ t \notin revents'
         /\ wakers[t] = NoWaker) =>
            /\ ready_queue' = ready_queue
            /\ token' = token
            /\ rwaker' = NoWaker
            /\ rpc' = AfterEvent(revents')
            /\ <<pc, cur, tasks>>' = <<pc, cur, tasks>>]_vars

\* C8 witness: the event loop holds an event for an interest id whose Waker
\* deregister has removed, while another leaf's Waker is stored.
C8_Witness ==
    \E t \in revents :
        /\ rpc = "dispatch"
        /\ wakers[t] = NoWaker
        /\ Len(rlog[t]) = 2
        /\ \E u \in Iids : wakers[u] # NoWaker

\* C9 as stated: while the executor thread is blocked in thread::park, the task
\* table is non-empty and the ready queue is empty.
C9_ParkedQueueEmpty ==
    \A e \in Main :
        pc[e] = "parked" => (task_count(e) > 0 /\ ready_queue[e] = <<>>)

\* C9 amended: while the executor thread is blocked in thread::park, the task
\* table is non-empty and no task is off the table; the ready queue may hold
\* ids, and when it does an unpark for this thread is pending (its token is
\* set) or the event loop is inside Waker::wake between push and unpark.
C9_ParkedHasTasksAndPendingUnpark ==
    \A e \in Main :
        pc[e] = "parked" =>
            /\ task_count(e) > 0
            /\ cur[e] = NoCur
            /\ ready_queue[e] # <<>> =>
                   \/ token[e]
                   \/ (rpc = "wake_unpark" /\ rwaker.thread = e)

\* C9 witness: the thread is blocked in park and a wake has pushed an id but
\* not yet unparked.
C9_Witness ==
    \E e \in Main :
        /\ pc[e] = "parked"
        /\ ready_queue[e] # <<>>
        /\ ~token[e]
        /\ rpc = "wake_unpark"

\* C10: spawn never hands out a task id twice (ids below the counter have
\* exactly one owner, ids from the counter on have none), so every id on a
\* ready queue was given to exactly one task, and a task found under that id
\* is that task.
C10_QueuedIdsDenoteOneTask ==
    \A e \in Main :
        /\ \A id \in TaskIds :
               /\ Cardinality(owner[e][id]) <= 1
               /\ (owner[e][id] # {}) <=> (id < next_id[e])
        /\ \A k \in 1..Len(ready_queue[e]) :
               /\ ready_queue[e][k] \in TaskIds
               /\ owner[e][ready_queue[e][k]] # {}
               /\ InTable(e, ready_queue[e][k]) =>
                      tasks[e][ready_queue[e][k]].iid \in owner[e][ready_queue[e][k]]

\* C10 witness: the id of a resolved task is still on the ready queue while a
\* task spawned later is pending under another id.
C10_Witness ==
    \E e \in Main :
        /\ 0 \in Range(ready_queue[e])
        /\ ~InTable(e, 0)
        /\ readyCnt[1] = 1
        /\ InTable(e, 1)
        /\ cur[e] = NoCur

\* C14: Reactor::next_id hands out 1, 2, 3, ... : the counter starts at 1 and
\* every call, from whichever thread, returns the current value and advances
\* it by one, so the interest ids of all leaf futures ever built are pairwise
\* distinct and are exactly the values below the counter.
C14_NextIdDistinct ==
    /\ [](/\ rnext_id >= 1
          /\ UNION {owner[e][id] : e \in Execs, id \in TaskIds} = 1..(rnext_id - 1)
          /\ \A e1, e2 \in Execs : \A id1, id2 \in TaskIds :
                 (<<e1, id1>> # <<e2, id2>>) =>
                     owner[e1][id1] \cap owner[e2][id2] = {}
          /\ \A e1, e2 \in Execs : \A id1, id2 \in TaskIds :
                 (<<e1, id1>> # <<e2, id2>> /\ InTable(e1, id1) /\ InTable(e2, id2))
                     => tasks[e1][id1].iid # tasks[e2][id2].iid
          /\ \A e1, e2 \in Execs : \A id \in TaskIds :
                 (cur[e1] # NoCur /\ InTable(e2, id))
                     => cur[e1].fut.iid # tasks[e2][id].iid
          /\ \A e1, e2 \in Execs :
                 (e1 # e2 /\ cur[e1] # NoCur /\ cur[e2] # NoCur)
                     => cur[e1].fut.iid # cur[e2].fut.iid)
    /\ [][rnext_id' # rnext_id =>
            /\ rnext_id' = rnext_id + 1
            /\ \E e \in Execs : \E id \in TaskIds :
                  /\ tasks'[e][id] = NewFuture(rnext_id)
                  /\ tasks[e][id] = NoFut]_vars

\* C14 witness: two executor threads have each built a leaf future, the
\* second thread's call having come first.
C14_Witness ==
    /\ owner["B"][0] = {1}
    /\ owner["A"][0] = {2}
    /\ rnext_id = 3

\* C15: a spawn step stores the new task under the executor's next id, which
\* no task had before, appends that id once to the ready queue, and polls
\* nothing (no task leaves the table, no socket is touched); and a task that
\* sits unpolled in the table of an executor that is inside block_on is
\* eventually taken and polled, with or without any Waker call.
C15_SpawnQueuesOnce ==
    /\ [][\A e \in Main :
            next_id'[e] # next_id[e] =>
                /\ owner[e][next_id[e]] = {}
                /\ tasks[e][next_id[e]] = NoFut
                /\ tasks'[e][next_id[e]] = NewFuture(rnext_id)
                /\ \A j \in TaskIds \ {next_id[e]} : tasks'[e][j] = tasks[e][j]
                /\ ready_queue'[e] = Append(ready_queue[e], next_id[e])
                /\ cur' = cur
                /\ sock' = sock
                /\ rlog' = rlog
                /\ wakers' = wakers]_vars
    /\ \A e \in Main : \A i \in Iids :
           (/\ pc[e] # "idle"
            /\ \E id \in TaskIds : tasks[e][id].iid = i /\ ~tasks[e][id].stream)
               ~> (cur[e].fut.iid = i)

\* C15 witness: a task spawned from inside another task's poll is being
\* polled for the first time; no Waker was ever stored for it and the event
\* loop has never run.
C15_Witness ==
    \E e \in Main :
        /\ pc[e] = "connect"
        /\ cur[e].id >= 1
        /\ wakers[cur[e].fut.iid] = NoWaker
        /\ rlog[cur[e].fut.iid] = <<>>
        /\ \E j \in Iids : rlog[j] # <<>>
        /\ rpc = "wait" /\ edge = {}

\* C16 as stated: every block_on call stores its task under task id 0.
C16_BlockOnStoresUnderZero ==
    [][\A e \in Main :
        (pc[e] = "idle" /\ pc'[e] = "pop") =>
            /\ tasks'[e][0] = NewFuture(rnext_id)
            /\ \A j \in TaskIds \ {0} : tasks'[e][j] = tasks[e][j]]_vars

\* C16 amended: every block_on call stores its task under the calling
\* thread's next unused task id, the number of tasks spawned on that thread
\* so far; that id is 0 exactly when nothing was spawned on the thread before.
C16_BlockOnStoresUnderNextId ==
    [][\A e \in Main :
        (pc[e] = "idle" /\ pc'[e] = "pop") =>
            /\ tasks'[e][next_id[e]] = NewFuture(rnext_id)
            /\ \A j \in TaskIds \ {next_id[e]} : tasks'[e][j] = tasks[e][j]
            /\ next_id[e] = Cardinality({j \in TaskIds : owner[e][j] # {}})
            /\ (next_id[e] = 0) <=> (\A j \in TaskIds : owner[e][j] = {})
            /\ next_id'[e] = next_id[e] + 1]_vars

\* C16 witness: block_on was called on a thread where spawn had already
\* stored a task under id 0; both tasks are still unpolled, block_on's own
\* task is under id 1.
C16_Witness ==
    \E e \in Main :
        /\ pc[e] = "pop"
        /\ ready_queue[e] = <<0, 1>>
        /\ InTable(e, 0) /\ ~tasks[e][0].stream
        /\ InTable(e, 1) /\ ~tasks[e][1].stream
        /\ cur[e] = NoCur

\* How often id occurs in the queue q.
Occurrences(q, id) == Cardinality({k \in 1..Len(q) : q[k] = id})

\* C17: with two executor threads, every Waker stored or being invoked names
\* the thread on which its task was spawned and that task's id; a task is
\* held (in a table or in a poll) only by the executor it was spawned on; the
\* push of a wake changes only the named thread's queue and its unpark only
\* that thread's token; and a step that changes one executor's task table is a
\* step of that executor and changes no other executor.
C17_TasksThreadConfined ==
    /\ [](/\ \A i \in Iids :
                 wakers[i] # NoWaker => i \in owner[wakers[i].thread][wakers[i].id]
          /\ rwaker # NoWaker => owner[rwaker.thread][rwaker.id] # {}
          /\ \A e \in Execs : \A id \in TaskIds :
                 InTable(e, id) => tasks[e][id].iid \in owner[e][id]
          /\ \A e \in Execs :
                 cur[e] # NoCur => cur[e].fut.iid \in owner[e][cur[e].id])
    /\ [][/\ (rpc = "wake_push" /\ rpc' # rpc) =>
                /\ ready_queue' = [ready_queue EXCEPT ![rwaker.thread] =
                                       Append(@, rwaker.id)]
                /\ token' = token
          /\ (rpc = "wake_unpark" /\ rpc' # rpc) =>
                /\ \A e \in Execs \ {rwaker.thread} : token'[e] = token[e]
                /\ ready_queue' = ready_queue
          /\ \A e \in Execs :
                tasks'[e] # tasks[e] =>
                    /\ pc'[e] # pc[e]
                    /\ \A f \in Execs \ {e} :
                          /\ pc'[f] = pc[f]
                          /\ tasks'[f] = tasks[f]
                          /\ cur'[f] = cur[f]
                          /\ ready_queue'[f] = ready_queue[f]]_vars

\* C17 witness: both executors hold a pending task under task id 0; the event
\* loop is invoking B's Waker, has pushed 0 onto B's queue only and is about
\* to unpark B, while A stays parked.
C17_Witness ==
    /\ InTable("A", 0) /\ InTable("B", 0)
    /\ wakers[tasks["A"][0].iid] = get_waker("A", 0)
    /\ rpc = "wake_unpark"
    /\ rwaker = get_waker("B", 0)
    /\ ready_queue["B"] = <<0>>
    /\ ready_queue["A"] = <<>>
    /\ pc["A"] = "parked" /\ pc["B"] = "parked"

\* C18: the executor thread holds neither its ready-queue lock nor the
\* waker-table lock once the statement that took it has ended: not while a
\* task's poll is running, and not when poll has returned.
C18_NoLockAcrossPoll ==
    \A e \in Main :
        /\ wlock # e
        /\ \A f \in Execs : qlock[f] # e

\* C18 witness: a task's poll is running and is about to call set_waker while
\* the event loop holds the waker-table lock; the executor holds no lock.
C18_Witness ==
    \E e \in Main :
        /\ pc[e] = "set_waker2"
        /\ wlock = "reactor"
        /\ qlock[e] = "free"
        /\ rwaker.thread = e

\* C19 as stated: no thread holds the waker-table lock while it invokes a
\* Waker (pushes onto a ready queue, unparks a thread), and no thread holds
\* both locks at once.
C19_LocksNeverNested ==
    /\ rpc \in {"wake_push", "wake_unpark"} => wlock # "reactor"
    /\ \A e \in Execs : qlock[e] = "free" \/ qlock[e] # wlock

\* C20: every Waker::wake pushes the Waker's id onto the queue of the Waker's
\* thread, with the queue lock free again when the push statement ends and
\* no park token touched, and then sets that thread's park token, whatever
\* the thread is doing and whatever the queue and the task table hold.
C20_WakePushThenUnpark ==
    [][/\ (rpc = "wake_push" /\ rpc' # rpc) =>
             /\ ready_queue' = [ready_queue EXCEPT ![rwaker.thread] =
                                    Append(@, rwaker.id)]
             /\ qlock'[rwaker.thread] = "free"
             /\ token' = token
             /\ rwaker' = rwaker
             /\ rpc' = "wake_unpark"
       /\ (rpc = "wake_unpark" /\ rpc' # rpc) =>
             /\ token'[rwaker.thread]
             /\ qlock[rwaker.thread] # "reactor"
             /\ ready_queue' = ready_queue
       /\ (rpc' = "wake_unpark") => rpc \in {"wake_push", "wake_unpark"}]_vars

\* C20 witness: wake is about to unpark an executor that is not parked but
\* in the middle of a poll, having pushed an id that was already queued.
C20_Witness ==
    \E e \in Main :
        /\ rpc = "wake_unpark"
        /\ rwaker.thread = e
        /\ pc[e] \in PollPcs
        /\ Occurrences(ready_queue[e], rwaker.id) >= 2

\* ------------------------------------------------- claims: JoinAll
\* C6: every JoinAll::poll returns Ready exactly when, at its end, every one
\* of the N sub-tasks has returned Ready, and NotReady otherwise, in whatever
\* order and over however many polls the sub-tasks resolved.
C6_JoinReadyIffAllResolved ==
    jpolls >= 1 =>
        /\ jresult \in PollStates
        /\ (jresult = "Ready") <=>
               (\A k \in 1..Len(jfutures) : jsubReady[k] >= 1)

\* C6 witness: a JoinAll over three sub-tasks returned Ready on its third poll,
\* its last slot having resolved in an earlier poll than its first.
C6_Witness ==
    /\ Len(jfutures) = 3
    /\ jpolls = 3
    /\ jresult = "Ready"
    /\ jsubPolls[3] < jsubPolls[1]

\* ------------------------------------------------- claims: the coroutine
\* C7: in one Coroutine::poll call, a NotReady from the first sub-task ends
\* the call with NotReady: it is the last thing the call does, and the call
\* neither builds nor polls the second sub-task; the second sub-task is built
\* only right after a poll of the first returned Ready.
C7_SequentialShortCircuit ==
    /\ \A k \in 1..Len(co_log) :
           co_log[k] = <<"poll", 1, "NotReady">> =>
               /\ k = Len(co_log)
               /\ co_result = "NotReady"
               /\ co_state = "Wait1"
               /\ \A j \in 1..Len(co_log) :
                      co_log[j] # <<"new", 2>> /\ co_log[j][2] # 2
    /\ \A k \in 1..Len(co_log) :
           co_log[k] = <<"new", 2>> =>
               k > 1 /\ co_log[k - 1] = <<"poll", 1, "Ready">>
    /\ 2 \in co_made => co_state \in {"Wait2", "Resolved"}
    /\ co_state = "Wait1" => co_made = {1}

\* C7 witness: a poll of the started first sub-task read data, hit
\* would-block and reported NotReady, and the call returned NotReady.
C7_Witness ==
    /\ co_log = << <<"poll", 1, "NotReady">> >>
    /\ co_result = "NotReady"
    /\ co_fut.buffer >= 1
    /\ co_made = {1}

\* ------------------------------------------------- claims: the Reactor's API
\* C11: the waker table maps an interest id to at most one Waker, and a call
\* set_waker(w, id) leaves the table mapping id to exactly w, whatever was
\* stored for id before, and leaves the entries of all other ids as they were.
C11_SetWakerOverwrites ==
    [][(call' # call /\ call'.op = "set_waker") =>
          /\ wakers'[call'.id] = call'.w
          /\ \A j \in Iids \ {call'.id} : wakers'[j] = wakers[j]
          /\ \A j \in Iids : wakers'[j] \in AllWakers \cup {NoWaker}]_vars

\* C11 witness: set_waker replaced a different Waker stored earlier for the
\* id while another id has a Waker of its own.
C11_Witness ==
    /\ call.op = "set_waker"
    /\ call.old # NoWaker
    /\ call.old # call.w
    /\ wakers[call.id] = call.w
    /\ \E j \in Iids \ {call.id} : wakers[j] \notin {NoWaker, call.w}

\* C13: at most one event-loop thread ever runs and it belongs to the start
\* call that filled REACTOR; once REACTOR is filled it never changes, and a
\* start call that reaches REACTOR.set afterwards panics, changes neither the
\* waker table nor the id counter of the installed reactor and spawns nothing.
C13_StartOnce ==
    /\ [](/\ Cardinality(loop_threads) <= 1
          /\ loop_threads \subseteq {REACTOR}
          /\ \A t \in Execs : start_pc[t] = "spawn" => REACTOR = t)
    /\ [][REACTOR # "unset" =>
            /\ REACTOR' = REACTOR
            /\ \A t \in Execs :
                  (start_pc[t] = "built" /\ start_pc'[t] # "built") =>
                      /\ start_pc'[t] = "panicked"
                      /\ wakers' = wakers
                      /\ rnext_id' = rnext_id
                      /\ loop_threads' = loop_threads]_vars

\* C13 witness: a second start call has panicked while the reactor installed
\* by the first has handed out an id and stores a Waker, with one event loop.
C13_Witness ==
    \E t \in Execs :
        /\ start_pc[t] = "panicked"
        /\ REACTOR # "unset"
        /\ loop_threads = {REACTOR}
        /\ rnext_id > 1
        /\ \E i \in Iids : wakers[i] # NoWaker

\* ------------------------------------------------- claims: the epoll example
\* C12: a stream enters the handled set, and is counted, the first time a read
\* on it returns zero bytes and never again: at every test of the while
\* condition and at FINISHED the counter equals the number of distinct
\* streams that have reached end-of-stream, it never exceeds that number, and
\* the loop reaches FINISHED only when all 5 streams have reached
\* end-of-stream.
C12_HandledOncePerStream ==
    /\ handled_ids = ep_eof
    /\ handled_events <= Cardinality(ep_eof)
    /\ ep_pc # "error" => handled_events = Cardinality(ep_eof)
    /\ ep_pc = "finished" =>
           /\ ep_eof = Streams
           /\ handled_events = n_events
           /\ \A i \in Streams : ep_sock[i].closed /\ ep_sock[i].avail = 0

\* C12 witness: the loop has finished although a stream that was already
\* handled was reported again and gave a second zero-byte read.
C12_Witness ==
    /\ ep_pc = "finished"
    /\ ep_dups # {}
    /\ ep_sent >= 1


\* ------------------------------------------------- claims: failed reads
\* C21: one task's failure leaves the others running. A failed read in one
\* task never stops the executor thread while other tasks still wait in its
\* task table to be polled and driven to completion.
C21_FailureLeavesOthersRunning ==
    \A e \in Main : pc[e] = "panicked" => task_count(e) = 0


\* C22: an interrupted read is retried at once. In the epoll example, a turn
\* of the main loop never abandons the drain of a ready source: every stream
\* whose event the turn took has been read to WouldBlock or to its end when
\* the turn is over.
C22_InterruptedReadRetried ==
    [][(ep_pc = "loop" /\ ep_pc' = "loop" /\ ep_edge # {} /\ ep_edge' = {})
          => \A i \in ep_edge :
                /\ ep_sock'[i].avail = 0
                /\ ep_sock'[i].closed => i \in ep_eof']_vars


\* ------------------------------------------------- claims: coroutine states
\* C23: a poll of a Resolved coroutine panics with "Polled a resolved future"
\* and returns neither Ready nor NotReady, leaving the coroutine as it was;
\* the state becomes Resolved only in the poll that returns Ready, and the
\* coroutine is Resolved whenever a poll has returned Ready.
C23_ResolvedPollPanics ==
    /\ [](/\ co_state = "Resolved" => co_result \in {"Ready", "panic"}
          /\ co_result = "Ready" => co_state = "Resolved")
    /\ [][/\ (co_state = "Resolved" /\ (co_result' # co_result \/ co_log' # co_log))
              => /\ co_result' = "panic"
                 /\ co_state' = "Resolved"
                 /\ co_fut' = co_fut
                 /\ co_sock' = co_sock
                 /\ co_made' = co_made
          /\ (co_state # "Resolved" /\ co_state' = "Resolved")
              => co_result' = "Ready"]_vars

\* The coroutine returned Ready and was polled again.
C23_Witness == co_state = "Resolved" /\ co_result = "panic"


\* ------------------------------------------------- claims: the leaf's polls
\* C24 as claimed: the first poll of a leaf (stream not yet opened) never
\* returns Ready: the step that ends it leaves the leaf's Ready count alone.
C24_FirstPollNotReady ==
    [][\A e \in Main :
          (cur[e].first /\ cur'[e] = NoCur) => readyCnt' = readyCnt]_vars

\* C24: the first poll of a leaf (stream not yet opened) opens the stream,
\* registers with the reactor and stores the Waker of this poll, and then
\* reads in the same poll. It returns NotReady, the task stored with its
\* Waker in the table, when the read would block; it returns Ready, after
\* the one deregister, when the socket is already at its end.
C24_FirstPollReadsOn ==
    /\ [](\A e \in Main :
            (cur[e].first /\ pc[e] \in {"read", "set_waker2", "dereg_wakers"})
                => LET i == cur[e].fut.iid IN
                   /\ cur[e].fut.stream
                   /\ sock[i].conn
                   /\ i \in registered
                   /\ rlog[i] = <<"register">>
                   /\ LookupWaker(wakers, i) = get_waker(e, cur[e].id))
    /\ [][\A e \in Main :
            (cur[e].first /\ cur'[e] = NoCur)
                => LET i == cur[e].fut.iid
                       id == cur[e].id
                   IN IF readyCnt'[i] # readyCnt[i]
                         THEN /\ ReadOutcome(sock[i]) = "eof"
                              /\ rlog'[i] = <<"register", "deregister">>
                              /\ i \notin registered'
                              /\ LookupWaker(wakers', i) = NoWaker
                              /\ tasks'[e][id] = NoFut
                         ELSE /\ pc[e] = "set_waker2"
                              /\ tasks'[e][id] = cur[e].fut
                              /\ tasks'[e][id].stream
                              /\ i \in registered'
                              /\ LookupWaker(wakers', i) = get_waker(e, id)]_vars

\* A first poll that read the socket to its end is about to return Ready.
C24_Witness ==
    \E e \in Main : cur[e].first /\ pc[e] = "dereg_registry"


\* C25: whenever a poll of a leaf returns NotReady, the reactor's waker table
\* maps the leaf's interest id to the Waker that was passed to that poll (the
\* polled task's id and the polling thread); so every leaf that waits in a
\* task table after a poll has the Waker of its task and thread stored.
C25_NotReadyLeavesWaker ==
    /\ [](\A e \in Execs : \A id \in TaskIds :
            (InTable(e, id) /\ tasks[e][id].stream)
                => LookupWaker(wakers, tasks[e][id].iid)
                        = [id |-> id, thread |-> e])
    /\ [][\A e \in Execs :
            (cur[e] # NoCur /\ cur'[e] = NoCur /\ readyCnt' = readyCnt)
                => LookupWaker(wakers', cur[e].fut.iid)
                        = [id |-> cur[e].id, thread |-> e]]_vars

\* The second executor thread is parked after a poll of its leaf that read a
\* chunk and returned NotReady.
C25_Witness ==
    /\ pc["B"] = "parked"
    /\ InTable("B", 0)
    /\ tasks["B"][0].buffer >= 1
    /\ LookupWaker(wakers, tasks["B"][0].iid) = get_waker("B", 0)


\* C26: a started leaf reads until the socket is drained. A read of a chunk
\* appends exactly that chunk to the buffer and is followed by another read;
\* a poll returns NotReady only directly after a read that reported
\* would-block, never after a successful read; so what the peer sent is in
\* the buffer or still unread on the socket, and a leaf that waits in the
\* task table has unread data (or an unseen end) only while its readiness
\* event or its wakeup is still under way.
C26_ReadsUntilDrained ==
    /\ [](\A e \in Main :
            /\ cur[e].fut.stream
                => cur[e].fut.buffer + sock[cur[e].fut.iid].avail
                      = sock[cur[e].fut.iid].sent
            /\ \A id \in TaskIds :
                (InTable(e, id) /\ tasks[e][id].stream)
                    => LET i == tasks[e][id].iid IN
                       /\ tasks[e][id].buffer + sock[i].avail = sock[i].sent
                       /\ ReadOutcome(sock[i]) # "would_block"
                            => \/ i \in edge \cup revents
                               \/ rwaker = get_waker(e, id)
                               \/ id \in Range(ready_queue[e]))
    /\ [][\A e \in Main :
            LET i == cur[e].fut.iid IN
            /\ (cur[e] # NoCur /\ sock'[i].avail < sock[i].avail)
                => /\ pc[e] = "read"
                   /\ pc'[e] = "read"
                   /\ cur'[e].fut.buffer - cur[e].fut.buffer
                         = sock[i].avail - sock'[i].avail
            /\ (cur[e] # NoCur /\ cur'[e] = NoCur /\ readyCnt' = readyCnt)
                => pc[e] = "set_waker2"
            /\ (pc[e] # "set_waker2" /\ pc'[e] = "set_waker2")
                => /\ pc[e] = "read"
                   /\ ReadOutcome(sock[i]) = "would_block"
                   /\ cur' = cur
                   /\ sock' = sock]_vars

\* A leaf read a chunk, read again, got would-block and waits in the table
\* with the chunk in its buffer.
C26_Witness ==
    \E e \in Main : \E id \in TaskIds :
        /\ InTable(e, id)
        /\ tasks[e][id].buffer >= 1
        /\ sock[tasks[e][id].iid].avail = 0
        /\ ~sock[tasks[e][id].iid].closed
        /\ pc[e] = "parked"


\* ------------------------------------------------- claims: block_on's poll
\* C27: for a popped id whose task is in the table, block_on takes the task
\* off the table and polls it once, with a fresh Waker bound to that id and
\* to the current thread. After NotReady the same task is put back under the
\* same id and the executor pushes nothing onto the ready queue; after Ready
\* the task is not put back.
C27_PopPollPutBack ==
    /\ [](\A e \in Main :
            cur[e] # NoCur
                => /\ ~InTable(e, cur[e].id)
                   /\ pc[e] \in PollPcs \cup {"panicked"})
    /\ [][\A e \in Main :
            /\ (cur[e] = NoCur /\ cur'[e] # NoCur)
                => /\ pc[e] = "pop"
                   /\ ready_queue[e] # <<>>
                   /\ LET p == pop_ready(ready_queue[e]) IN
                      /\ InTable(e, p.id)
                      /\ cur'[e].id = p.id
                      /\ cur'[e].fut = tasks[e][p.id]
                      /\ tasks'[e] = [tasks[e] EXCEPT ![p.id] = NoFut]
                      /\ ready_queue'[e] = p.rest
                   /\ pc'[e] \in PollPcs
            /\ (cur[e] # NoCur /\ cur'[e] # NoCur)
                => /\ cur'[e].id = cur[e].id
                   /\ cur'[e].fut.iid = cur[e].fut.iid
            /\ (cur[e] # NoCur /\ wakers' # wakers
                    /\ pc[e] \in {"set_waker1", "set_waker2"})
                => wakers' = [wakers EXCEPT ![cur[e].fut.iid] =
                                  [id |-> cur[e].id, thread |-> e]]
            /\ (cur[e] # NoCur /\ cur'[e] = NoCur)
                => /\ ready_queue'[e] = ready_queue[e]
                   /\ IF readyCnt' = readyCnt
                         THEN tasks'[e] =
                                [tasks[e] EXCEPT ![cur[e].id] = cur[e].fut]
                         ELSE tasks'[e] = tasks[e]]_vars

\* A task was polled, returned NotReady and is back in the table under its
\* id, which is not on the ready queue; the thread is about to park.
C27_Witness ==
    \E e \in Main : \E id \in TaskIds :
        /\ InTable(e, id)
        /\ tasks[e][id].stream
        /\ id \notin Range(ready_queue[e])
        /\ cur[e] = NoCur
        /\ pc[e] = "park_call"


\* ------------------------------------------------- claims: JoinAll's scan
\* C28: each JoinAll::poll polls every sub-task that has not finished, once
\* and in slot order, and none whose flag is set or that returned Ready
\* before; a sub-task that returns NotReady does not stop the scan.
C28_ScanPollsEveryUnfinished ==
    [][jpolls' # jpolls
          => LET unfinished == {k \in 1..Len(jfutures) : ~jfutures[k].finished}
             IN /\ Range(jlast') = unfinished
                /\ Len(jlast') = Cardinality(unfinished)
                /\ \A a, b \in 1..Len(jlast') : a < b => jlast'[a] < jlast'[b]
                /\ \A k \in 1..Len(jfutures) :
                      /\ jsubPolls'[k] = jsubPolls[k]
                                           + (IF k \in unfinished THEN 1 ELSE 0)
                      /\ jsubReady[k] > 0 => k \notin Range(jlast')]_vars

\* A poll in which slot 1 returned NotReady, the finished slot 2 was skipped
\* and slot 3 was still polled.
C28_Witness ==
    /\ Len(jfutures) = 3
    /\ jlast = <<1, 3>>
    /\ ~jfutures[1].finished
    /\ jfutures[2].finished


\* Position of a coroutine state in the order Start, Wait1, Wait2, Resolved.
CoRank(st) ==
    IF st = "Start" THEN 0
    ELSE IF st = "Wait1" THEN 1
    ELSE IF st = "Wait2" THEN 2
    ELSE 3

\* The sub-tasks that a call's log shows returning Ready.
CoReadyPolls(log) ==
    {k \in 1..Len(log) : log[k][1] = "poll" /\ log[k][3] = "Ready"}

\* C29: the coroutine's tag only moves forward along Start, Wait1, Wait2,
\* Resolved: out of Start in the first poll and then one step per completed
\* sub-task, never backwards and never past a stage. One sub-task exists at
\* a time (the current stage's) and it is the only one polled. The coroutine
\* returns Ready exactly in the poll in which the last stage's sub-task
\* returns Ready.
C29_TagMovesForward ==
    /\ [](/\ co_made = 1..(IF CoRank(co_state) = 3 THEN 2 ELSE CoRank(co_state))
          /\ co_state = "Start" => co_fut = NoFut
          /\ co_result = "Ready"
                <=> (co_log # <<>> /\ Last(co_log) = <<"poll", 2, "Ready">>))
    /\ [][co_log' # co_log
          => /\ CoRank(co_state') >= CoRank(co_state)
             /\ CoRank(co_state') - CoRank(co_state)
                   = Cardinality(CoReadyPolls(co_log'))
                       + (IF co_state = "Start" THEN 1 ELSE 0)
             /\ \A k \in 1..Len(co_log') :
                   co_log'[k][1] = "poll"
                       => /\ CoRank(co_state) <= co_log'[k][2]
                          /\ co_log'[k][2] <= CoRank(co_state')
                          /\ co_log'[k][2] <= 2
                          /\ k < Len(co_log') => co_log'[k][3] = "Ready"]_vars

\* The coroutine went through both stages and returned Ready.
C29_Witness ==
    /\ co_state = "Resolved"
    /\ co_result = "Ready"
    /\ co_fut.buffer >= 1


\* ------------------------------------------------- claims: termination
\* C30: block_on terminates. With the executor and reactor threads running,
\* every socket reaching end-of-stream and every readiness edge reported,
\* each task in the table of a running block_on eventually returns Ready and
\* block_on eventually returns; also when the readiness event of a leaf was
\* dispatched after Reactor::register and before the first set_waker, and so
\* ignored.
C30_BlockOnTerminates ==
    /\ \A e \in Main : (pc[e] # "idle") ~> (pc[e] = "idle")
    /\ \A i \in Iids :
          (\E e \in Main : \E id \in TaskIds :
              pc[e] # "idle" /\ InTable(e, id) /\ tasks[e][id].iid = i)
            ~> (readyCnt[i] = 1)

\* A leaf in its first poll, registered and not yet past set_waker, whose
\* socket is readable and whose readiness event has been dispatched and
\* ignored: no edge, event or wakeup for it is left.
C30_Witness ==
    \E e \in Main :
        /\ pc[e] = "set_waker1"
        /\ cur[e].first
        /\ cur[e].fut.iid \in registered
        /\ LookupWaker(wakers, cur[e].fut.iid) = NoWaker
        /\ ReadOutcome(sock[cur[e].fut.iid]) = "eof"
        /\ cur[e].fut.iid \notin edge \cup revents
        /\ rpc = "wait"


\* ------------------------------------------------- claims: the two locks
\* The executor thread e is at a statement that locks the waker table
\* (set_waker, deregister) / its ready queue (pop_ready).
ExecWantsWakers(e) == pc[e] \in {"set_waker1", "set_waker2", "dereg_wakers"}
ExecWantsQueue(e) == pc[e] = "pop"

\* The executor thread e waits for a lock that is taken.
ExecBlocked(e) ==
    \/ ExecWantsWakers(e) /\ wlock # "free"
    \/ ExecWantsQueue(e) /\ qlock[e] # "free"

\* The event-loop thread waits for a lock that is taken: the waker table at
\* the start of an iteration, the Waker's queue inside Waker::wake.
ReactorBlocked ==
    \/ rpc = "dispatch" /\ wlock # "free"
    \/ rpc = "wake_push" /\ qlock[rwaker.thread] # "free"

\* The thread named th waits for a lock.
ThreadBlocked(th) ==
    IF th = "reactor" THEN ReactorBlocked
    ELSE IF th \in Execs THEN ExecBlocked(th)
    ELSE FALSE

\* C31: the reactor thread and the executor threads never deadlock on the
\* two locks. Executor threads hold no lock when they take one, the event
\* loop alone takes the ready-queue lock while it holds the waker-table
\* lock, and whenever a thread waits for a lock the thread that holds it is
\* not itself waiting for a lock.
C31_NoLockDeadlock ==
    /\ \A e \in Execs :
          /\ wlock # e
          /\ \A f \in Execs : qlock[f] # e
          /\ (ExecWantsWakers(e) /\ wlock # "free") => ~ThreadBlocked(wlock)
          /\ (ExecWantsQueue(e) /\ qlock[e] # "free")
                => ~ThreadBlocked(qlock[e])
    /\ (rpc = "dispatch" /\ wlock # "free") => ~ThreadBlocked(wlock)
    /\ (rpc = "wake_push" /\ qlock[rwaker.thread] # "free")
          => ~ThreadBlocked(qlock[rwaker.thread])
    /\ rpc = "wake_push" => wlock = "reactor"

\* An executor thread waits for the waker-table lock at set_waker while the
\* event loop, holding it, is about to lock that thread's ready queue.
C31_Witness ==
    \E e \in Execs :
        /\ ExecWantsWakers(e)
        /\ wlock = "reactor"
        /\ rpc = "wake_push"
        /\ rwaker.thread = e
        /\ e = "B"


\* ------------------------------------------------- claims: after deregister
\* The leaf with interest id i has had its waker-table entry removed by
\* Reactor::deregister.
Deregistered(i) == "deregister" \in Range(rlog[i])

\* C32: once Reactor::deregister has removed the waker-table entry of an
\* interest id, the entry stays absent (ids are not reused) and the event
\* loop is never again invoking a Waker for that id, whatever events for
\* the token are buffered or still delivered; after a leaf has returned
\* Ready no readiness event of its socket pushes a task id onto a ready
\* queue.
C32_NoWakeAfterDeregister ==
    /\ [](\A i \in Iids :
            Deregistered(i)
                => /\ LookupWaker(wakers, i) = NoWaker
                   /\ rtoken # i
                   /\ i < rnext_id)
    /\ [][\A i \in Iids :
            /\ (Deregistered(i) /\ i \in revents /\ i \notin revents')
                => /\ ready_queue' = ready_queue
                   /\ token' = token
                   /\ rtoken' = 0
            /\ (readyCnt[i] >= 1 /\ rpc = "wake_push" /\ rpc' # rpc)
                => rtoken # i]_vars

\* The event loop holds a buffered event for a token whose leaf has returned
\* Ready, and is invoking the Waker of another leaf.
C32_Witness ==
    \E i \in Iids :
        /\ readyCnt[i] = 1
        /\ i \in revents
        /\ rpc = "wake_push"
        /\ rtoken \notin {0, i}


\* ------------------------------------------------- claims: JoinAll's count
\* C33: in every state of a JoinAll, finished_count is the number of slots
\* whose flag is set, and so at most the number of slots; a flag that is set
\* stays set; a JoinAll over an empty list returns Ready on its first poll.
C33_CountMatchesFlags ==
    /\ [](/\ jfinished_count
                = Cardinality({k \in 1..Len(jfutures) : jfutures[k].finished})
          /\ jfinished_count <= Len(jfutures)
          /\ (Len(jfutures) = 0 /\ jpolls >= 1)
                => (jresult = "Ready" /\ jpolls = 1))
    /\ [][/\ Len(jfutures') = Len(jfutures)
          /\ \A k \in 1..Len(jfutures) :
                jfutures[k].finished => jfutures'[k].finished]_vars

\* After three polls of a JoinAll over three sub-tasks two flags are set and
\* the count is two.
C33_Witness ==
    /\ Len(jfutures) = 3
    /\ jpolls = 3
    /\ jfinished_count = 2
    /\ jresult = "NotReady"


\* ------------------------------------------------- claims: ch09/c block_on
\* C34: block_on's direct first poll with the placeholder Waker. Ready makes
\* block_on return with nothing spawned; NotReady is followed by spawn, which
\* stores the task and queues its real id. The placeholder's id matches no
\* task, so popping it polls nothing. The executor cannot park while a
\* placeholder Waker is still stored: the task has been polled with the
\* Waker of its real id by then. So no wakeup is lost: with its threads
\* running and every response reaching its end, block_on returns.
C34_PlaceholderHarmless ==
    /\ [](\A e \in Main :
            /\ ~InTable(e, PlaceholderWaker(e).id)
            /\ pc[e] \in {"park_call", "parked"}
                => \A i \in Iids :
                      /\ LookupWaker(wakers, i) # PlaceholderWaker(e)
                      /\ (\E id \in TaskIds :
                              InTable(e, id) /\ tasks[e][id].iid = i)
                            => LookupWaker(wakers, i).id \in TaskIds)
    /\ [][\A e \in Main :
            /\ (cur[e].direct /\ cur'[e] = NoCur)
                => IF readyCnt' # readyCnt
                      THEN /\ pc'[e] = "idle"
                           /\ tasks' = tasks
                           /\ next_id' = next_id
                           /\ ready_queue' = ready_queue
                      ELSE /\ pc[e] = "direct_spawn"
                           /\ pc'[e] = "pop"
                           /\ tasks'[e] = [tasks[e] EXCEPT ![next_id[e]] = cur[e].fut]
                           /\ ready_queue'[e] = Append(ready_queue[e], next_id[e])
                           /\ next_id'[e] = next_id[e] + 1
            /\ (pc[e] = "pop" /\ ready_queue[e] # <<>>
                    /\ Len(ready_queue'[e]) < Len(ready_queue[e])
                    /\ Last(ready_queue[e]) = PlaceholderWaker(e).id)
                => (pc'[e] = "pop" /\ tasks' = tasks /\ cur' = cur)]_vars
    /\ \A e \in Main : (pc[e] # "idle") ~> (pc[e] = "idle")


\* ---------------------------------------------------------------------
\* ch05/c-fibers: Runtime (new, spawn, t_yield, t_return, run)
\* ---------------------------------------------------------------------
\* Mutant: the search always starts at the base thread's slot.
RECURSIVE FindReady_FromBase(_, _, _)
FindReady_FromBase(th, pos, start) ==
    IF \E p \in Slots : th[p] = "Ready"
    THEN CHOOSE p \in Slots :
            th[p] = "Ready" /\ \A q \in Slots : th[q] = "Ready" => p <= q
    ELSE -1

\* t_yield's search: `while self.threads[pos].state != State::Ready`, pos
\* moving one slot on, wrapping at threads.len(); back at the start it gives
\* up (`return false`, here -1).
RECURSIVE FindReady(_, _, _)
FindReady(th, pos, start) ==
    IF th[pos] = "Ready"
    THEN pos
    ELSE LET p == IF pos + 1 = MAX_THREADS THEN 0 ELSE pos + 1
         IN  IF p = start THEN -1 ELSE FindReady(th, p, start)

\* Mutant: t_yield leaves the state of the thread it switches from alone.
YieldOldState_Keep(s) == s

\* t_yield: `if self.threads[self.current].state != State::Available` the
\* thread switched from becomes Ready.
YieldOldState(s) == IF s # "Available" THEN "Ready" ELSE s

\* Runtime::t_yield on the Runtime rt; ret is what the call returns once the
\* caller runs again (`self.threads.len() > 0` after a switch).
t_yield(rt) ==
    LET pos == FindReady(rt.threads, rt.current, rt.current)
    IN  IF pos = -1
        THEN [threads |-> rt.threads, current |-> rt.current, ret |-> FALSE]
        ELSE [threads |-> [rt.threads EXCEPT
                              ![rt.current] = YieldOldState(@),
                              ![pos] = "Running"],
              current |-> pos,
              ret |-> TRUE]

\* Runtime::t_return: on a thread other than the base thread, mark it
\* Available and yield.
t_return(rt) ==
    IF rt.current # 0
    THEN t_yield([threads |-> [rt.threads EXCEPT ![rt.current] = "Available"],
                  current |-> rt.current])
    ELSE [threads |-> rt.threads, current |-> rt.current, ret |-> TRUE]

\* The slot Runtime::spawn's find gives: the first Available one (-1: none).
FirstAvailable(th) ==
    IF \E i \in Slots : th[i] = "Available"
    THEN CHOOSE i \in Slots :
            th[i] = "Available" /\ \A j \in Slots : th[j] = "Available" => i <= j
    ELSE -1

\* main calls runtime.spawn(f), f a function that calls yield_thread n times:
\* the first Available thread gets f on its stack and becomes Ready; with
\* none Available the expect panics.
FiberSpawn ==
    /\ f_pc = "main"
    /\ f_spawned < MaxSpawns
    /\ LET a == FirstAvailable(threads)
       IN  IF a = -1
           THEN /\ f_pc' = "panicked"
                /\ UNCHANGED <<threads, current, f_left, f_spawned, f_done>>
           ELSE /\ \E n \in 0..MaxYields : f_left' = [f_left EXCEPT ![a] = n]
                /\ threads' = [threads EXCEPT ![a] = "Ready"]
                /\ f_spawned' = f_spawned + 1
                /\ UNCHANGED <<f_pc, current, f_done>>
    /\ UNCHANGED notFiber

\* Runtime::run on the base thread: one turn of `while self.t_yield() {}`,
\* and std::process::exit(0) when t_yield returns false.
run ==
    /\ f_pc \in {"main", "run"}
    /\ current = 0
    /\ LET r == t_yield([threads |-> threads, current |-> current])
       IN  /\ threads' = r.threads
           /\ current' = r.current
           /\ f_pc' = IF r.ret THEN "run" ELSE "exited"
    /\ UNCHANGED <<f_left, f_spawned, f_done>>
    /\ UNCHANGED notFiber

\* The running fiber calls yield_thread: t_yield on the Runtime. Its return
\* value is dropped.
yield_thread ==
    /\ f_pc = "run"
    /\ current # 0
    /\ f_left[current] > 0
    /\ LET r == t_yield([threads |-> threads, current |-> current])
       IN  /\ threads' = r.threads
           /\ current' = r.current
    /\ f_left' = [f_left EXCEPT ![current] = @ - 1]
    /\ UNCHANGED <<f_pc, f_spawned, f_done>>
    /\ UNCHANGED notFiber

\* The running fiber's function returns into guard, which calls t_return.
\* Were t_return to come back (no Ready thread), guard would return off the
\* end of the fiber's stack.
guard ==
    /\ f_pc = "run"
    /\ current # 0
    /\ f_left[current] = 0
    /\ LET r == t_return([threads |-> threads, current |-> current])
       IN  /\ threads' = r.threads
           /\ current' = r.current
           /\ f_pc' = IF r.ret THEN "run" ELSE "stray"
    /\ f_done' = f_done + 1
    /\ UNCHANGED <<f_left, f_spawned>>
    /\ UNCHANGED notFiber

\* main: `let mut runtime = Runtime::new(); runtime.init();`
FiberInit ==
    /\ RuntimeInit
    /\ JoinIdle
    /\ CoIdle
    /\ Started
    /\ EpIdle
    /\ f_pc = "main"
    /\ threads = Runtime_new.threads
    /\ current = Runtime_new.current
    /\ f_left = [i \in Slots |-> 0]
    /\ f_spawned = 0
    /\ f_done = 0

FiberNext ==
    \/ FiberSpawn
    \/ run
    \/ yield_thread
    \/ guard

FiberSpec == FiberInit /\ [][FiberNext]_vars


\* ---------------------------------------------------------------------
\* Claims about the fiber runtime
\* ---------------------------------------------------------------------
\* The slots whose thread is in state s.
InState(s) == {i \in Slots : threads[i] = s}

\* C35: taking Runtime::new, spawn, t_yield and t_return as one step each,
\* after every step exactly one thread slot is Running and it is
\* threads[current]; the base thread (slot 0) is never Available; so the
\* t_return of a finishing fiber finds a Ready thread, switches to it and
\* never comes back into guard.
C35_OneRunning ==
    /\ [](f_pc # "off" =>
            /\ InState("Running") = {current}
            /\ threads[0] # "Available"
            /\ f_pc # "stray")
    /\ [][f_done' = f_done + 1 =>
            /\ current # 0
            /\ threads[0] = "Ready"
            /\ threads[current'] = "Ready"
            /\ current' # current
            /\ threads'[current] = "Available"]_vars

\* A fiber has finished through t_return while another fiber was Ready, and
\* that other fiber now runs.
C35_Witness ==
    /\ f_pc = "run"
    /\ f_done >= 1
    /\ current # 0
    /\ threads[current] = "Running"
    /\ InState("Available") # {}


\* The number of slots from slot a forward to slot b, wrapping round.
Ahead(a, b) == (b - a + MAX_THREADS) % MAX_THREADS

\* The first Ready slot after slot a in round-robin order (-1: none).
NextReadyAfter(a) ==
    IF \E p \in Slots \ {a} : threads[p] = "Ready"
    THEN CHOOSE p \in Slots \ {a} :
            /\ threads[p] = "Ready"
            /\ \A q \in Slots \ {a} :
                  threads[q] = "Ready" => Ahead(a, p) <= Ahead(a, q)
    ELSE -1

\* The spawned fibers whose function has not returned yet.
Unfinished == {i \in Slots \ {0} : threads[i] \in {"Ready", "Running"}}

\* A step of run: the base thread's t_yield and, when it fails, the exit.
RunStep ==
    /\ f_pc \in {"main", "run"}
    /\ current = 0
    /\ f_spawned' = f_spawned
    /\ f_pc' \in {"run", "exited"}
    /\ <<f_pc, threads, current>>' # <<f_pc, threads, current>>

\* C36: Runtime::run exits the process only when t_yield called on the base
\* thread finds no Ready thread, which is exactly when every spawned fiber
\* has run to its end and is Available again; while a spawned fiber is
\* unfinished, run does not exit, and every t_yield that switches goes to the
\* next Ready slot after current in round-robin order.
C36_RunExitsWhenAllDone ==
    /\ [](f_pc = "exited" =>
            /\ current = 0
            /\ InState("Ready") = {}
            /\ \A i \in Slots \ {0} : threads[i] = "Available" /\ f_left[i] = 0
            /\ f_done = f_spawned)
    /\ [][RunStep =>
            /\ (f_pc' = "exited") = (InState("Ready") = {})
            /\ (InState("Ready") = {}) = (Unfinished = {})
            /\ (Unfinished = {}) = (f_done = f_spawned)
            /\ f_pc' = "exited" => UNCHANGED <<threads, current>>]_vars
    /\ [][current' # current =>
            /\ current' = NextReadyAfter(current)
            /\ threads'[current'] = "Running"]_vars

\* run has exited after at least two spawned fibers ran to their end.
C36_Witness ==
    /\ f_pc = "exited"
    /\ f_spawned >= 2
    /\ f_done = f_spawned

====
